---- MODULE Spec2Model ----
(***************************************************************************)
(* A model of openforcefield/typing/engines/smirnoff/parameters.py: the    *)
(* parameter records, the record collection, the handlers and the          *)
(* assignment engine that turns pattern matches into force terms.          *)
(*                                                                         *)
(* Python values that may be None, True/False or a Quantity are tagged     *)
(* records ([t |-> "None"], [t |-> "Quantity", v |-> 2], ...), so that     *)
(* values of different Python types can be compared.                      *)
(***************************************************************************)
EXTENDS Integers, Sequences, FiniteSets, TLC

VARIABLES
    topology,      \* the Topology handed to find_matches / create_force
    parameters,    \* handler tag -> its ParameterList (ParameterHandler._parameters)
    constrained,   \* the topology's constraint state (atom pair -> False | True | distance)
    system,        \* the engine object: its forces (with their terms) and its constraints
    header,        \* handler tag -> the section-level attributes of that handler
    ran,           \* the tags of the handlers whose create_force has been called
    outcome,       \* what the last call did: returned normally, or the exception raised
    found,         \* the mapping last returned by find_matches
    audit,         \* the arguments and the result of the last completeness audit called directly
    attribute,     \* one descriptor, the value assigned through it and what the assignment did
    record,        \* one record: its construction input, what is stored, its to_dict, its copy
    parameter_list, \* one ParameterList
    listop,        \* the last lookup or deletion on parameter_list and what it did
    compat,        \* two handlers of one class and what check_handler_compatibility did
    handler        \* one handler: its construction input and what the constructor left

engineVars == <<topology, parameters, header, constrained, system, ran, outcome>>
schemaVars == <<attribute, record, parameter_list, listop, compat, handler>>
vars == <<topology, parameters, header, constrained, system, ran, outcome, found, audit,
          attribute, record, parameter_list, listop, compat, handler>>

-----------------------------------------------------------------------------
(* Python values *)

NoneV == [t |-> "None"]
TrueV == [t |-> "True"]
FalseV == [t |-> "False"]
Qty(x) == [t |-> "Quantity", v |-> x]
List(s) == [t |-> "list", items |-> s]

\* bool(x) of a constraint mark: False, True, or a Quantity (true when non-zero)
Truthy(x) == x.t = "True" \/ (x.t = "Quantity" /\ x.v # 0)

Range(s) == {s[i] : i \in 1..Len(s)}

Reverse(s) == [i \in 1..Len(s) |-> s[Len(s) + 1 - i]]

LexLess(a, b) == \E i \in 1..Len(a) : a[i] < b[i] /\ \A j \in 1..(i - 1) : a[j] = b[j]

RECURSIVE SortedSeq(_)
SortedSeq(S) ==
    IF S = {} THEN <<>>
    ELSE LET m == CHOOSE x \in S : \A y \in S \ {x} : LexLess(x, y)
         IN  <<m>> \o SortedSeq(S \ {m})

Min2(a, b) == IF a <= b THEN a ELSE b
Max2(a, b) == IF a >= b THEN a ELSE b

-----------------------------------------------------------------------------
(* The topologies: atoms 0..n-1 with an element each, bonds as atom pairs, *)
(* each bond of the reference molecule with its fractional bond order      *)
(* (None when no fractional order was assigned), and the box vectors.      *)

Chain ==
    [name |-> "chain", n |-> 4,
     elem |-> (0 :> "C" @@ 1 :> "C" @@ 2 :> "C" @@ 3 :> "H"),
     bonds |-> {{0, 1}, {1, 2}, {2, 3}},
     fbo |-> ({0, 1} :> NoneV @@ {1, 2} :> NoneV @@ {2, 3} :> NoneV),
     box_vectors |-> NoneV]

Star ==
    [name |-> "star", n |-> 4,
     elem |-> (0 :> "H" @@ 1 :> "C" @@ 2 :> "H" @@ 3 :> "H"),
     bonds |-> {{0, 1}, {1, 2}, {1, 3}},
     fbo |-> ({0, 1} :> NoneV @@ {1, 2} :> NoneV @@ {1, 3} :> NoneV),
     box_vectors |-> NoneV]

Ring ==
    [name |-> "ring", n |-> 3,
     elem |-> (0 :> "C" @@ 1 :> "C" @@ 2 :> "H"),
     bonds |-> {{0, 1}, {1, 2}, {0, 2}},
     fbo |-> ({0, 1} :> NoneV @@ {1, 2} :> NoneV @@ {0, 2} :> NoneV),
     box_vectors |-> TrueV]

Fractional ==
    [name |-> "fractional", n |-> 3,
     elem |-> (0 :> "H" @@ 1 :> "C" @@ 2 :> "C"),
     bonds |-> {{0, 1}, {1, 2}},
     fbo |-> ({0, 1} :> NoneV @@ {1, 2} :> Qty(2)),
     box_vectors |-> NoneV]

Topologies == {Chain, Star, Ring, Fractional}

Atoms(top) == 0..(top.n - 1)

Bonded(top, i, j) == {i, j} \in top.bonds /\ i # j

\* Molecule.get_bond_between: the bond, or NotBondedError
get_bond_between(top, i, j) ==
    IF Bonded(top, i, j) THEN [ok |-> TRUE, fractional_bond_order |-> top.fbo[{i, j}]]
    ELSE [ok |-> FALSE, fractional_bond_order |-> NoneV]

Tuples(top, len) == [1..len -> Atoms(top)]

Distinct(t) == \A i, j \in 1..Len(t) : i # j => t[i] # t[j]

\* the intrinsic valence terms of the topology, each listed once
topology_bonds(top) ==
    SortedSeq({t \in Tuples(top, 2) : Bonded(top, t[1], t[2]) /\ t[1] < t[2]})

topology_angles(top) ==
    SortedSeq({t \in Tuples(top, 3) :
        /\ Distinct(t) /\ Bonded(top, t[1], t[2]) /\ Bonded(top, t[2], t[3])
        /\ t[1] < t[3]})

topology_propers(top) ==
    SortedSeq({t \in Tuples(top, 4) :
        /\ Distinct(t) /\ Bonded(top, t[1], t[2]) /\ Bonded(top, t[2], t[3])
        /\ Bonded(top, t[3], t[4]) /\ t[1] < t[4]})

topology_impropers(top) ==
    SortedSeq({t \in Tuples(top, 4) :
        /\ Distinct(t) /\ Bonded(top, t[1], t[2]) /\ Bonded(top, t[2], t[3])
        /\ Bonded(top, t[2], t[4]) /\ t[1] < t[3] /\ t[3] < t[4]})

topology_atoms(top) == SortedSeq({t \in Tuples(top, 1) : TRUE})

-----------------------------------------------------------------------------
(* The pattern engine.  A pattern tags one atom per position with an       *)
(* element or the wildcard "*"; its valence type fixes which tagged atoms   *)
(* must be bonded.  A match is a tuple of topology atom indices; the        *)
(* reference molecule is the topology itself.                               *)

AtomMatches(spec, e) == spec = "*" \/ spec = e

Connectivity(valence_type) ==
    CASE valence_type = "Bond" -> {<<1, 2>>}
      [] valence_type = "Angle" -> {<<1, 2>>, <<2, 3>>}
      [] valence_type = "ProperTorsion" -> {<<1, 2>>, <<2, 3>>, <<3, 4>>}
      [] valence_type = "ImproperTorsion" -> {<<1, 2>>, <<2, 3>>, <<2, 4>>}
      [] OTHER -> {}

chemical_environment_matches(top, valence_type, smirks) ==
    SortedSeq({t \in Tuples(top, Len(smirks)) :
        /\ Distinct(t)
        /\ \A i \in 1..Len(smirks) : AtomMatches(smirks[i], top.elem[t[i]])
        /\ \A c \in Connectivity(valence_type) : Bonded(top, t[c[1]], t[c[2]])})

-----------------------------------------------------------------------------
(* The canonical keys of the match dictionaries *)

\* ValenceDict.key_transform: reversed when the first index exceeds the last
ValenceDict_key_transform(key) ==
    IF key[1] > key[Len(key)] THEN Reverse(key) ELSE key

\* ImproperDict.key_transform: the central atom (second position) stays, the
\* three others are sorted
ImproperDict_key_transform(key) ==
    LET lo == Min2(key[1], Min2(key[3], key[4]))
        hi == Max2(key[1], Max2(key[3], key[4]))
        mid == key[1] + key[3] + key[4] - lo - hi
    IN  <<lo, key[2], mid, hi>>

key_transform(dict_cls, key) ==
    IF dict_cls = "ImproperDict" THEN ImproperDict_key_transform(key)
    ELSE ValenceDict_key_transform(key)

\* TransformedDict.__setitem__ on an insertion-ordered dictionary: an
\* existing key keeps its place and takes the new value
DictSet(dict_cls, d, key, val) ==
    LET k == key_transform(dict_cls, key)
    IN  IF \E i \in 1..Len(d) : d[i].key = k
        THEN [i \in 1..Len(d) |-> IF d[i].key = k THEN [key |-> k, val |-> val] ELSE d[i]]
        ELSE Append(d, [key |-> k, val |-> val])

Keys(d) == {d[i].key : i \in 1..Len(d)}

Lookup(d, k) == (CHOOSE e \in Range(d) : e.key = k).val

-----------------------------------------------------------------------------
(* The handlers: tag, valence type of their records, dictionary class *)

Tags == {"Constraints", "Bonds", "Angles", "ProperTorsions", "ImproperTorsions", "vdW"}

VALENCE_TYPE(tag) ==
    CASE tag = "Constraints" -> "Bond"
      [] tag = "Bonds" -> "Bond"
      [] tag = "Angles" -> "Angle"
      [] tag = "ProperTorsions" -> "ProperTorsion"
      [] tag = "ImproperTorsions" -> "ImproperTorsion"
      [] tag = "vdW" -> "Atom"

\* find_matches of ImproperTorsionHandler passes ImproperDict, the others
\* use the default ValenceDict
transformed_dict_cls(tag) ==
    IF tag = "ImproperTorsions" THEN "ImproperDict" ELSE "ValenceDict"

\* ParameterHandler._Match: the matched record (its position in the
\* collection) and the environment match (the atom indices as matched)
Match(parameter_type, environment_match) ==
    [parameter_type |-> parameter_type, environment_match |-> environment_match]

\* matches.update(matches_for_this_type): the matches of one record, in the
\* order the pattern engine gave them
RECURSIVE update_matches(_, _, _, _, _)
update_matches(dict_cls, matches, p, envs, j) ==
    IF j > Len(envs) THEN matches
    ELSE update_matches(dict_cls,
                        DictSet(dict_cls, matches, envs[j], Match(p, envs[j])),
                        p, envs, j + 1)

RECURSIVE find_matches_from(_, _, _, _, _)
find_matches_from(tag, plist, top, matches, p) ==
    IF p > Len(plist) THEN matches
    ELSE find_matches_from(tag, plist, top,
             update_matches(transformed_dict_cls(tag), matches, p,
                 chemical_environment_matches(top, VALENCE_TYPE(tag), plist[p].smirks), 1),
             p + 1)

\* a collection kept in reverse: the first record to match a key keeps it
RECURSIVE find_matches_first_wins(_, _, _, _, _)
find_matches_first_wins(tag, plist, top, matches, p) ==
    IF p < 1 THEN matches
    ELSE find_matches_first_wins(tag, plist, top,
             update_matches(transformed_dict_cls(tag), matches, p,
                 chemical_environment_matches(top, VALENCE_TYPE(tag), plist[p].smirks), 1),
             p - 1)

find_matches_mutant(tag, plist, top) ==
    find_matches_first_wins(tag, plist, top, <<>>, Len(plist))

\* ParameterHandler._find_matches
find_matches(tag, plist, top) == find_matches_from(tag, plist, top, <<>>, 1)

\* ParameterHandler._assert_correct_connectivity: every expected pair of the
\* match is bonded in the reference molecule (else get_bond_between raises)
default_connectivity(env) == {<<i, i + 1>> : i \in 1..(Len(env) - 1)}

assert_correct_connectivity(top, env, expected_connectivity) ==
    \A c \in expected_connectivity : get_bond_between(top, env[c[1]], env[c[2]]).ok

audit_same_keys(dict_cls, assigned_terms, valence_terms) ==
    LET valence_terms_set == {key_transform(dict_cls, valence_terms[i]) :
                                 i \in 1..Len(valence_terms)}
        assigned_terms_set == Keys(assigned_terms)
        unassigned_terms == valence_terms_set \ assigned_terms_set
        not_found_terms == assigned_terms_set \ valence_terms_set
    IN  [raised |-> unassigned_terms # {} \/ not_found_terms # {},
         unassigned |-> unassigned_terms, not_found |-> not_found_terms]

audit_not_found_only(dict_cls, assigned_terms, valence_terms) ==
    LET a == audit_same_keys(dict_cls, assigned_terms, valence_terms)
    IN  [raised |-> a.not_found # {}, unassigned |-> {}, not_found |-> a.not_found]

audit_without_shortcut(dict_cls, assigned_terms, valence_terms) ==
    audit_same_keys(dict_cls, assigned_terms, valence_terms)

\* ParameterHandler._check_all_valence_terms_assigned: nothing is compared
\* when both collections have the same number of entries
check_all_valence_terms_assigned(dict_cls, assigned_terms, valence_terms) ==
    IF Len(assigned_terms) = Len(valence_terms)
    THEN [raised |-> FALSE, unassigned |-> {}, not_found |-> {}]
    ELSE audit_same_keys(dict_cls, assigned_terms, valence_terms)

-----------------------------------------------------------------------------
(* The engine object *)

EmptySystem == [forces |-> <<>>, constraints |-> <<>>]

NewForce(kind) == [kind |-> kind, terms |-> <<>>, settings |-> NoneV]

\* the first force of the kind, 0 when there is none
existing_force(sys, kind) ==
    IF \E i \in 1..Len(sys.forces) : sys.forces[i].kind = kind
    THEN CHOOSE i \in 1..Len(sys.forces) :
             /\ sys.forces[i].kind = kind
             /\ \A j \in 1..(i - 1) : sys.forces[j].kind # kind
    ELSE 0

addForce(sys, force) == [sys EXCEPT !.forces = Append(@, force)]

\* "create or retrieve existing OpenMM Force object"
get_or_create_force(sys, kind) ==
    IF existing_force(sys, kind) = 0 THEN addForce(sys, NewForce(kind)) ELSE sys

always_create_force(sys, kind) == addForce(sys, NewForce(kind))

addTerm(sys, f, term) == [sys EXCEPT !.forces[f].terms = Append(@, term)]

addConstraint(sys, i, j, distance) ==
    [sys EXCEPT !.constraints = Append(@, <<i, j, distance>>)]

\* Topology.is_constrained / Topology.add_constraint
is_constrained(cons, i, j) == IF {i, j} \in DOMAIN cons THEN cons[{i, j}] ELSE FalseV

add_constraint(cons, i, j, distance) ==
    [p \in (DOMAIN cons) \cup {{i, j}} |-> IF p = {i, j} THEN distance ELSE cons[p]]

NoConstraints == [p \in {} |-> FalseV]

-----------------------------------------------------------------------------
(* create_force of each handler.  A call works on [system, constrained,    *)
(* parameters, status, report]: status is "ok" until an exception is       *)
(* raised, and what was written before the exception stays written.        *)

NoReport == [parameter_handler |-> "", unassigned |-> {}, not_found |-> {}]

Started(sys, cons, plist) ==
    [system |-> sys, constrained |-> cons, parameters |-> plist,
     status |-> "ok", report |-> NoReport]

Raise(st, exception) == [st EXCEPT !.status = exception]

\* the completeness audit at the end of create_force
audited(st, handler_cls, dict_cls, assigned_terms, valence_terms, exception_cls) ==
    IF st.status # "ok" THEN st
    ELSE LET a == check_all_valence_terms_assigned(dict_cls, assigned_terms, valence_terms)
         IN  IF a.raised
             THEN [st EXCEPT !.status = exception_cls,
                             !.report = [parameter_handler |-> handler_cls,
                                         unassigned |-> a.unassigned,
                                         not_found |-> a.not_found]]
             ELSE st

\* ConstraintHandler.create_force
RECURSIVE ConstraintHandler_loop(_, _, _)
ConstraintHandler_loop(st, constraint_matches, i) ==
    IF i > Len(constraint_matches) THEN st
    ELSE LET atoms == constraint_matches[i].key
             constraint == st.parameters[constraint_matches[i].val.parameter_type]
             next ==
                 IF constraint.distance.t = "None"
                 THEN [st EXCEPT !.constrained = add_constraint(@, atoms[1], atoms[2], TrueV)]
                 ELSE [st EXCEPT
                          !.system = addConstraint(@, atoms[1], atoms[2], constraint.distance.v),
                          !.constrained = add_constraint(@, atoms[1], atoms[2], constraint.distance)]
         IN  ConstraintHandler_loop(next, constraint_matches, i + 1)

ConstraintHandler_create_force(sys, top, cons, plist, h) ==
    ConstraintHandler_loop(Started(sys, cons, plist), find_matches("Constraints", plist, top), 1)

\* BondHandler.create_force, one matched bond
BondHandler_step_keeps_bond(st, top, f, entry) ==
    LET key == entry.key
        bond_params == st.parameters[entry.val.parameter_type]
        env == entry.val.environment_match
    IN  IF ~assert_correct_connectivity(top, env, default_connectivity(env))
        THEN Raise(st, "NotBondedError")
        ELSE IF get_bond_between(top, env[1], env[2]).fractional_bond_order.t # "None"
        THEN Raise(st, "AttributeError")
        ELSE [st EXCEPT !.system = addTerm(@, f, <<key[1], key[2], bond_params.length, bond_params.k>>)]

BondHandler_step(st, top, f, entry) ==
    LET key == entry.key
        bond_params == st.parameters[entry.val.parameter_type]
        env == entry.val.environment_match
        mark == is_constrained(st.constrained, key[1], key[2])
    IN  IF ~assert_correct_connectivity(top, env, default_connectivity(env))
        THEN Raise(st, "NotBondedError")
        ELSE IF get_bond_between(top, env[1], env[2]).fractional_bond_order.t # "None"
        \* self.fractional_bondorder_interpolation: the handler stores its header
        \* attributes under "_<name>" only
        THEN Raise(st, "AttributeError")
        ELSE IF Truthy(mark)
        THEN IF mark.t = "True"
             THEN [st EXCEPT
                      !.constrained = add_constraint(@, key[1], key[2], Qty(bond_params.length)),
                      !.system = addConstraint(@, key[1], key[2], bond_params.length)]
             ELSE st
        ELSE [st EXCEPT !.system = addTerm(@, f, <<key[1], key[2], bond_params.length, bond_params.k>>)]

RECURSIVE BondHandler_loop(_, _, _, _, _)
BondHandler_loop(st, top, f, bond_matches, i) ==
    IF i > Len(bond_matches) \/ st.status # "ok" THEN st
    ELSE BondHandler_loop(BondHandler_step(st, top, f, bond_matches[i]),
                          top, f, bond_matches, i + 1)

BondHandler_create_force(sys, top, cons, plist, h) ==
    LET sys1 == get_or_create_force(sys, "HarmonicBondForce")
        f == existing_force(sys1, "HarmonicBondForce")
        bond_matches == find_matches("Bonds", plist, top)
    IN  audited(BondHandler_loop(Started(sys1, cons, plist), top, f, bond_matches, 1),
                "BondHandler", "ValenceDict", bond_matches, topology_bonds(top),
                "UnassignedBondParameterException")

\* an angle handler that skips a triple as soon as one of its bonds is constrained
AngleHandler_step_skips_bonds(st, top, f, entry) ==
    LET atoms == entry.key
        angle == st.parameters[entry.val.parameter_type]
        env == entry.val.environment_match
    IN  IF ~assert_correct_connectivity(top, env, default_connectivity(env))
        THEN Raise(st, "NotBondedError")
        ELSE IF \/ Truthy(is_constrained(st.constrained, atoms[1], atoms[2]))
                \/ Truthy(is_constrained(st.constrained, atoms[2], atoms[3]))
        THEN st
        ELSE [st EXCEPT !.system = addTerm(@, f, <<atoms[1], atoms[2], atoms[3], angle.angle, angle.k>>)]

\* AngleHandler.create_force
AngleHandler_step(st, top, f, entry) ==
    LET atoms == entry.key
        angle == st.parameters[entry.val.parameter_type]
        env == entry.val.environment_match
    IN  IF ~assert_correct_connectivity(top, env, default_connectivity(env))
        THEN Raise(st, "NotBondedError")
        ELSE IF /\ Truthy(is_constrained(st.constrained, atoms[1], atoms[2]))
                /\ Truthy(is_constrained(st.constrained, atoms[2], atoms[3]))
                /\ Truthy(is_constrained(st.constrained, atoms[1], atoms[3]))
        THEN st
        ELSE [st EXCEPT !.system = addTerm(@, f, <<atoms[1], atoms[2], atoms[3], angle.angle, angle.k>>)]

RECURSIVE AngleHandler_loop(_, _, _, _, _)
AngleHandler_loop(st, top, f, angle_matches, i) ==
    IF i > Len(angle_matches) \/ st.status # "ok" THEN st
    ELSE AngleHandler_loop(AngleHandler_step(st, top, f, angle_matches[i]),
                           top, f, angle_matches, i + 1)

AngleHandler_create_force(sys, top, cons, plist, h) ==
    LET sys1 == get_or_create_force(sys, "HarmonicAngleForce")
        f == existing_force(sys1, "HarmonicAngleForce")
        angle_matches == find_matches("Angles", plist, top)
    IN  audited(AngleHandler_loop(Started(sys1, cons, plist), top, f, angle_matches, 1),
                "AngleHandler", "ValenceDict", angle_matches, topology_angles(top),
                "UnassignedAngleParameterException")

RECURSIVE GCD(_, _)
GCD(a, b) == IF b = 0 THEN a ELSE GCD(b, a % b)

Times(k, idivf) == <<k * idivf, 1>>

\* k / idivf, kept exact: the reduced fraction <<numerator, denominator>>
Divide(k, idivf) == LET g == GCD(k, idivf) IN <<k \div g, idivf \div g>>

MinLen(a, b, c, d) == Min2(Min2(Len(a), Len(b)), Min2(Len(c), Len(d)))

\* ProperTorsionHandler/ImproperTorsionHandler.validate_parameters
torsion_validate_parameters(h) ==
    IF h.potential # "k*(1+cos(periodicity*theta-phase))" THEN "SMIRNOFFSpecError" ELSE "ok"

\* ProperTorsionHandler.create_force, the terms of one matched quartet:
\* zip() stops at the shortest of the four sequences
RECURSIVE ProperTorsionHandler_terms(_, _, _, _, _)
ProperTorsionHandler_terms(st, f, atom_indices, torsion, i) ==
    IF i > MinLen(torsion.periodicity, torsion.phase, torsion.k, torsion.idivf.items)
    THEN st
    ELSE IF torsion.idivf.items[i] = 0 THEN Raise(st, "ZeroDivisionError")
    ELSE ProperTorsionHandler_terms(
             [st EXCEPT !.system = addTerm(@, f,
                 <<atom_indices[1], atom_indices[2], atom_indices[3], atom_indices[4],
                   torsion.periodicity[i], torsion.phase[i],
                   Divide(torsion.k[i], torsion.idivf.items[i])>>)],
             f, atom_indices, torsion, i + 1)

ProperTorsionHandler_step(st, top, f, entry) ==
    LET torsion == st.parameters[entry.val.parameter_type]
        env == entry.val.environment_match
    IN  IF ~assert_correct_connectivity(top, env, default_connectivity(env))
        THEN Raise(st, "NotBondedError")
        \* zip(..., torsion.idivf) with idivf left at its default None
        ELSE IF torsion.idivf.t = "None" THEN Raise(st, "TypeError")
        ELSE ProperTorsionHandler_terms(st, f, entry.key, torsion, 1)

RECURSIVE ProperTorsionHandler_loop(_, _, _, _, _)
ProperTorsionHandler_loop(st, top, f, torsion_matches, i) ==
    IF i > Len(torsion_matches) \/ st.status # "ok" THEN st
    ELSE ProperTorsionHandler_loop(ProperTorsionHandler_step(st, top, f, torsion_matches[i]),
                                   top, f, torsion_matches, i + 1)

ProperTorsionHandler_create_force(sys, top, cons, plist, h) ==
    IF torsion_validate_parameters(h) # "ok"
    THEN Raise(Started(sys, cons, plist), torsion_validate_parameters(h))
    ELSE
    LET sys1 == get_or_create_force(sys, "PeriodicTorsionForce")
        f == existing_force(sys1, "PeriodicTorsionForce")
        torsion_matches == find_matches("ProperTorsions", plist, top)
    IN  audited(ProperTorsionHandler_loop(Started(sys1, cons, plist), top, f, torsion_matches, 1),
                "ProperTorsionHandler", "ValenceDict", torsion_matches, topology_propers(top),
                "UnassignedProperTorsionParameterException")

\* the three orders that keep the first outer atom in front
trefoil_swaps(atom_indices) ==
    LET others == <<atom_indices[1], atom_indices[3], atom_indices[4]>>
    IN  << <<others[1], others[2], others[3]>>,
           <<others[1], others[3], others[2]>>,
           <<others[2], others[1], others[3]>> >>

\* ImproperTorsionHandler.create_force: the three paths around the trefoil
trefoil(atom_indices) ==
    LET others == <<atom_indices[1], atom_indices[3], atom_indices[4]>>
    IN  << <<others[1], others[2], others[3]>>,
           <<others[2], others[3], others[1]>>,
           <<others[3], others[1], others[2]>> >>

RECURSIVE ImproperTorsionHandler_terms(_, _, _, _, _)
ImproperTorsionHandler_terms(st, f, atom_indices, improper, i) ==
    IF i > MinLen(improper.periodicity, improper.phase, improper.k, improper.idivf.items)
    THEN st
    ELSE IF improper.idivf.items[i] = 0 THEN Raise(st, "ZeroDivisionError")
    ELSE LET p == trefoil(atom_indices)
             term(j) == <<atom_indices[2], p[j][1], p[j][2], p[j][3],
                          improper.periodicity[i], improper.phase[i],
                          Divide(improper.k[i], improper.idivf.items[i])>>
         IN  ImproperTorsionHandler_terms(
                 [st EXCEPT !.system = addTerm(addTerm(addTerm(@, f, term(1)), f, term(2)), f, term(3))],
                 f, atom_indices, improper, i + 1)

\* "if improper.idivf is None: improper.idivf = [3 for item in improper.k]":
\* the record itself is assigned to
ImproperTorsionHandler_step(st, top, f, entry) ==
    LET p == entry.val.parameter_type
        env == entry.val.environment_match
        st1 == IF st.parameters[p].idivf.t = "None"
               THEN [st EXCEPT !.parameters[p].idivf =
                        List([j \in 1..Len(st.parameters[p].k) |-> 3])]
               ELSE st
    IN  IF ~assert_correct_connectivity(top, env, {<<1, 2>>, <<2, 3>>, <<2, 4>>})
        THEN Raise(st, "NotBondedError")
        ELSE ImproperTorsionHandler_terms(st1, f, entry.key, st1.parameters[p], 1)

RECURSIVE ImproperTorsionHandler_loop(_, _, _, _, _)
ImproperTorsionHandler_loop(st, top, f, improper_matches, i) ==
    IF i > Len(improper_matches) \/ st.status # "ok" THEN st
    ELSE ImproperTorsionHandler_loop(ImproperTorsionHandler_step(st, top, f, improper_matches[i]),
                                     top, f, improper_matches, i + 1)

\* no completeness audit closes this create_force
ImproperTorsionHandler_create_force(sys, top, cons, plist, h) ==
    IF torsion_validate_parameters(h) # "ok"
    THEN Raise(Started(sys, cons, plist), torsion_validate_parameters(h))
    ELSE
    LET sys1 == get_or_create_force(sys, "PeriodicTorsionForce")
        f == existing_force(sys1, "PeriodicTorsionForce")
        improper_matches == find_matches("ImproperTorsions", plist, top)
    IN  ImproperTorsionHandler_loop(Started(sys1, cons, plist), top, f, improper_matches, 1)

\* vdWHandler._validate_parameters
vdWHandler_validate_parameters(h) ==
    IF h.scale12 # 0 \/ h.scale13 # 0 \/ h.scale15 # 1000000 THEN "SMIRNOFFSpecError"
    ELSE IF h.method \notin {"cutoff", "PME"} THEN "SMIRNOFFSpecError"
    ELSE IF h.cutoff.t = "None" THEN "SMIRNOFFSpecError"
    ELSE IF h.potential # "Lennard-Jones-12-6" THEN "SMIRNOFFSpecError"
    ELSE IF h.combining_rules # "Lorentz-Berthelot" THEN "SMIRNOFFSpecError"
    ELSE "ok"

\* a NonbondedForce as the engine constructs it
NonbondedDefaults ==
    [method |-> "NoCutoff", cutoff |-> Qty(10), dispersion_correction |-> TRUE,
     ewald_error_tolerance |-> "5e-4"]

\* vdWHandler.create_force: the method of the new force, from the handler's
\* method and the periodicity of the topology
vdWHandler_settings(h, top) ==
    IF h.method = "PME"
    THEN IF top.box_vectors.t = "None"
         THEN [NonbondedDefaults EXCEPT !.method = "NoCutoff"]
         ELSE [NonbondedDefaults EXCEPT !.method = "LJPME", !.cutoff = Qty(9),
                                        !.ewald_error_tolerance = "1e-4"]
    ELSE IF top.box_vectors.t = "None"
         THEN [NonbondedDefaults EXCEPT !.method = "NoCutoff"]
         ELSE [NonbondedDefaults EXCEPT !.method = "PME", !.dispersion_correction = TRUE,
                                        !.cutoff = h.cutoff]

Particle(charge, sigma, epsilon) == [charge |-> charge, sigma |-> sigma, epsilon |-> epsilon]

\* sigma = 2 * rmin_half / 2^(1/6)
sigma_from_rmin_half(rmin_half) == [t |-> "2*rmin_half/2^(1/6)", v |-> rmin_half.v]

vdWHandler_step(st, f, entry) ==
    LET atom_idx == entry.key[1]
        ljtype == st.parameters[entry.val.parameter_type]
    IN  IF ljtype.sigma.t = "None" /\ ljtype.rmin_half.t = "None" THEN Raise(st, "TypeError")
        ELSE [st EXCEPT !.system.forces[f].terms[atom_idx + 1] =
                 Particle(0,
                          IF ljtype.sigma.t = "None" THEN sigma_from_rmin_half(ljtype.rmin_half)
                          ELSE ljtype.sigma,
                          ljtype.epsilon)]

RECURSIVE vdWHandler_loop(_, _, _, _)
vdWHandler_loop(st, f, atom_matches, i) ==
    IF i > Len(atom_matches) \/ st.status # "ok" THEN st
    ELSE vdWHandler_loop(vdWHandler_step(st, f, atom_matches[i]), f, atom_matches, i + 1)

\* a new NonbondedForce is made and added on every call
vdWHandler_create_force(sys, top, cons, plist, h) ==
    IF vdWHandler_validate_parameters(h) # "ok"
    THEN Raise(Started(sys, cons, plist), vdWHandler_validate_parameters(h))
    ELSE
    LET force == [kind |-> "NonbondedForce",
                  terms |-> [a \in 1..top.n |-> Particle(0, [t |-> "float", v |-> 1], 0)],
                  settings |-> vdWHandler_settings(h, top)]
        sys1 == addForce(sys, force)
        f == Len(sys1.forces)
        atom_matches == find_matches("vdW", plist, top)
    IN  audited(vdWHandler_loop(Started(sys1, cons, plist), f, atom_matches, 1),
                "vdWHandler", "ValenceDict", atom_matches, topology_atoms(top),
                "UnassignedValenceParameterException")

\* ElectrostaticsHandler._validate_parameters
ElectrostaticsHandler_validate_parameters(h) ==
    IF h.scale12 # 0 \/ h.scale13 # 0 \/ h.scale15 # 1000000 THEN "IncompatibleParameterError"
    ELSE IF h.method = "reaction-field" THEN "IncompatibleParameterError"
    ELSE IF h.method \notin {"PME", "Coulomb"} THEN "IncompatibleParameterError"
    ELSE IF h.method = "PME" /\ h.cutoff.t = "None" THEN "SMIRNOFFSpecError"
    ELSE IF h.switch_width # Qty(0) THEN "IncompatibleParameterError"
    ELSE "ok"

\* an electrostatics handler that sets PME on every periodic topology
ElectrostaticsHandler_overwrites_method(st, top, f, h) ==
    IF top.box_vectors.t = "None" \/ h.method # "PME" THEN st
    ELSE [st EXCEPT !.system.forces[f].settings =
             [@ EXCEPT !.method = "PME", !.cutoff = Qty(9), !.ewald_error_tolerance = "1e-4"]]

\* ElectrostaticsHandler.create_force after "force = existing[0]" and
\* _validate_parameters: f is the first NonbondedForce of the system
ElectrostaticsHandler_set_method(st, top, f, h) ==
    LET current_nb_method == st.system.forces[f].settings.method
    IN  IF current_nb_method = "LJPME" /\ h.method # "PME"
        THEN Raise(st, "IncompatibleParameterError")
        ELSE IF h.method = "PME"
        THEN IF top.box_vectors.t = "None"
             THEN IF current_nb_method = "NoCutoff" THEN st ELSE Raise(st, "AssertionError")
             ELSE IF current_nb_method = "LJPME" THEN st
             ELSE [st EXCEPT !.system.forces[f].settings =
                      [@ EXCEPT !.method = "PME", !.cutoff = Qty(9),
                                !.ewald_error_tolerance = "1e-4"]]
        ELSE IF h.method \in {"Coulomb", "reaction-field"}
        THEN IF top.box_vectors.t = "None"
             THEN IF current_nb_method = "NoCutoff" THEN st ELSE Raise(st, "AssertionError")
             ELSE Raise(st, "IncompatibleParameterError")
        ELSE Raise(st, "IncompatibleParameterError")

\* ElectrostaticsHandler.create_force
ElectrostaticsHandler_create_force(sys, top, cons, plist, h) ==
    IF existing_force(sys, "NonbondedForce") = 0
    THEN Raise(Started(sys, cons, plist), "IndexError")
    ELSE IF ElectrostaticsHandler_validate_parameters(h) # "ok"
    THEN Raise(Started(sys, cons, plist), ElectrostaticsHandler_validate_parameters(h))
    ELSE ElectrostaticsHandler_set_method(Started(sys, cons, plist), top,
                                          existing_force(sys, "NonbondedForce"), h)

\* ToolkitAM1BCCHandler.assign_charge_from_molecules: the partial charges of
\* the first molecule that is isomorphic to the reference molecule, carried
\* over the atom map (charge molecule index -> reference index); None when
\* no molecule is isomorphic
RECURSIVE assign_charge_from_molecules(_, _, _)
assign_charge_from_molecules(top, charge_mols, m) ==
    IF m > Len(charge_mols) THEN NoneV
    ELSE IF charge_mols[m].is_isomorphic
    THEN List([ref_idx \in 1..top.n |->
                  charge_mols[m].partial_charges[
                      CHOOSE charge_idx \in 1..top.n :
                          charge_mols[m].topology_atom_map[charge_idx] = ref_idx]])
    ELSE assign_charge_from_molecules(top, charge_mols, m + 1)

\* temp_mol._partial_charges: from charge_from_molecules when the keyword is
\* given and a molecule matches, else what compute_partial_charges_am1bcc
\* gave
ToolkitAM1BCCHandler_partial_charges(top, kwargs, computed) ==
    IF "charge_from_molecules" \in DOMAIN kwargs
          /\ assign_charge_from_molecules(top, kwargs["charge_from_molecules"], 1).t # "None"
    THEN assign_charge_from_molecules(top, kwargs["charge_from_molecules"], 1).items
    ELSE computed

ToolkitAM1BCCHandler_step_resets(st, f, particle_charge, i) ==
    IF i > Len(st.system.forces[f].terms) THEN Raise(st, "OpenMMException")
    ELSE [st EXCEPT !.system.forces[f].terms[i] =
             Particle(particle_charge[i], [t |-> "float", v |-> 1], 0)]

\* getParticleParameters / setParticleParameters of one particle: the engine
\* raises for a particle the force does not have
ToolkitAM1BCCHandler_step(st, f, particle_charge, i) ==
    IF i > Len(st.system.forces[f].terms) THEN Raise(st, "OpenMMException")
    ELSE [st EXCEPT !.system.forces[f].terms[i] =
             Particle(particle_charge[i], @.sigma, @.epsilon)]

RECURSIVE ToolkitAM1BCCHandler_loop(_, _, _, _, _)
ToolkitAM1BCCHandler_loop(st, top, f, particle_charge, i) ==
    IF i > top.n \/ st.status # "ok" THEN st
    ELSE ToolkitAM1BCCHandler_loop(ToolkitAM1BCCHandler_step(st, f, particle_charge, i),
                                   top, f, particle_charge, i + 1)

\* ToolkitAM1BCCHandler.create_force
ToolkitAM1BCCHandler_create_force(sys, top, cons, plist, kwargs, computed) ==
    LET sys1 == IF existing_force(sys, "NonbondedForce") = 0
                THEN addForce(sys, [NewForce("NonbondedForce") EXCEPT
                                       !.settings = NonbondedDefaults])
                ELSE sys
    IN  ToolkitAM1BCCHandler_loop(Started(sys1, cons, plist), top,
                                  existing_force(sys1, "NonbondedForce"),
                                  ToolkitAM1BCCHandler_partial_charges(top, kwargs, computed), 1)

\* ToolkitAM1BCCHandler.postprocess_system: the handler declares no record
\* class (_INFOTYPE is None), its collection is empty and so are the
\* matches; a match would be a tuple of atom indices, and
\* "atom.particle_index" raises on the first of them
ToolkitAM1BCCHandler_postprocess_system(sys, top, cons, plist) ==
    IF existing_force(sys, "NonbondedForce") # 0
          /\ find_matches("ToolkitAM1BCC", plist, top) # <<>>
    THEN Raise(Started(sys, cons, plist), "AttributeError")
    ELSE Started(sys, cons, plist)

-----------------------------------------------------------------------------
(* The section-level attributes a handler has after construction           *)
(* (_DEFAULT_SPEC_ATTRIBS); floats are counted in millionths.              *)

DefaultHeader(tag) ==
    CASE tag = "Bonds" ->
            [potential |-> "harmonic", fractional_bondorder_method |-> "None",
             fractional_bondorder_interpolation |-> "linear"]
      [] tag = "Angles" -> [potential |-> "harmonic"]
      [] tag \in {"ProperTorsions", "ImproperTorsions"} ->
            [potential |-> "k*(1+cos(periodicity*theta-phase))", default_idivf |-> "auto"]
      [] tag = "vdW" ->
            [potential |-> "Lennard-Jones-12-6", combining_rules |-> "Lorentz-Berthelot",
             scale12 |-> 0, scale13 |-> 0, scale14 |-> 500000, scale15 |-> 1000000,
             switch_width |-> Qty(1), cutoff |-> Qty(9), method |-> "cutoff"]
      [] tag = "Electrostatics" ->
            [method |-> "PME", scale12 |-> 0, scale13 |-> 0, scale14 |-> 833333,
             scale15 |-> 1000000, switch_width |-> Qty(0), cutoff |-> Qty(9)]
      [] OTHER -> [version |-> "0.3"]

-----------------------------------------------------------------------------
(* The records the collections are filled from *)

MaxRecords == 2

MaxConstraints == 1

SeqsUpTo(S, n) == UNION {[1..k -> S] : k \in 0..n}

BondSmirks == {<<"*", "*">>, <<"C", "H">>, <<"C", "C">>}
ConstraintSmirks == {<<"*", "*">>, <<"C", "H">>}
AngleSmirks == {<<"*", "*", "*">>, <<"*", "C", "H">>}
ProperSmirks == {<<"*", "*", "*", "*">>, <<"C", "C", "C", "H">>}
ImproperSmirks == {<<"*", "C", "*", "*">>, <<"H", "C", "H", "H">>}
AtomSmirks == {<<"*">>, <<"H">>}

ConstraintTypes == [smirks : ConstraintSmirks, distance : {NoneV, Qty(2)}]

BondTypes ==
    { [smirks |-> <<"*", "*">>, length |-> 1, k |-> 5],
      [smirks |-> <<"*", "*">>, length |-> 3, k |-> 6],
      [smirks |-> <<"C", "H">>, length |-> 4, k |-> 7],
      [smirks |-> <<"C", "C">>, length |-> 5, k |-> 8] }

AngleTypes == [smirks : AngleSmirks, angle : {109}, k : {7}]

TorsionTerms ==
    { [periodicity |-> <<2>>, phase |-> <<0>>, k |-> <<1>>, idivf |-> List(<<1>>)],
      [periodicity |-> <<2, 3>>, phase |-> <<0, 180>>, k |-> <<1, 2>>, idivf |-> List(<<1, 2>>)],
      [periodicity |-> <<2, 3>>, phase |-> <<0, 180>>, k |-> <<1, 2>>, idivf |-> List(<<2>>)],
      [periodicity |-> <<1>>, phase |-> <<0>>, k |-> <<3>>, idivf |-> NoneV] }

TorsionTypes(smirks) ==
    {[smirks |-> s, periodicity |-> t.periodicity, phase |-> t.phase, k |-> t.k,
      idivf |-> t.idivf] : s \in smirks, t \in TorsionTerms}

ProperTorsionTypes == TorsionTypes(ProperSmirks)

ImproperTorsionTypes == TorsionTypes(ImproperSmirks)

vdWTypes ==
    {[smirks |-> s, epsilon |-> 1, sigma |-> v[1], rmin_half |-> v[2]] :
        s \in AtomSmirks, v \in {<<Qty(3), NoneV>>, <<NoneV, Qty(2)>>}}

INFOTYPE(tag) ==
    CASE tag = "Constraints" -> ConstraintTypes
      [] tag = "Bonds" -> BondTypes
      [] tag = "Angles" -> AngleTypes
      [] tag = "ProperTorsions" -> ProperTorsionTypes
      [] tag = "ImproperTorsions" -> ImproperTorsionTypes
      [] tag = "vdW" -> vdWTypes
      [] tag \in {"Electrostatics", "ToolkitAM1BCC"} -> {}

\* the handlers of one force field: the handler under study and the handler
\* it depends on (_DEPENDENCIES)
DEPENDENCIES(tag) ==
    IF tag \in {"Bonds", "Angles"} THEN {"Constraints"}
    ELSE IF tag \in {"Electrostatics", "ToolkitAM1BCC"} THEN {"vdW"}
    ELSE {}

Sections(tag) ==
    IF DEPENDENCIES(tag) = {}
    THEN {(tag :> p) : p \in SeqsUpTo(INFOTYPE(tag), MaxRecords)}
    ELSE IF tag \in {"Electrostatics", "ToolkitAM1BCC"}
    THEN {(tag :> <<>>) @@ ("vdW" :> p) : p \in SeqsUpTo(vdWTypes, MaxRecords)}
    ELSE {(tag :> p) @@ ("Constraints" :> c) :
              p \in SeqsUpTo(INFOTYPE(tag), MaxRecords),
              c \in SeqsUpTo(ConstraintTypes, MaxConstraints)}

Headers(tag) ==
    IF tag = "vdW"
    THEN {[DefaultHeader("vdW") EXCEPT !.method = m, !.cutoff = cutoff] :
             m \in {"cutoff", "PME"}, cutoff \in {Qty(9), Qty(8)}}
    ELSE IF tag = "Electrostatics"
    THEN {[DefaultHeader(tag) EXCEPT !.method = m] : m \in {"PME", "Coulomb", "reaction-field"}}
    ELSE IF tag = "Bonds"
    THEN {[DefaultHeader(tag) EXCEPT !.fractional_bondorder_interpolation = m] :
             m \in {"linear", "cubic"}}
    ELSE {DefaultHeader(tag)}

NoOutcome == [op |-> "", status |-> "", report |-> NoReport]

NoFound == [tag |-> "", matches |-> <<>>]

NoAudit ==
    [handler_cls |-> "", dict_cls |-> "", exception_cls |-> "", assigned |-> <<>>,
     valence_terms |-> <<>>, status |-> "", report |-> NoReport]

InitEngine ==
    /\ topology \in Topologies
    /\ \E tag \in (Tags \ {"Constraints"}) \cup {"Electrostatics", "ToolkitAM1BCC"} :
           /\ parameters \in Sections(tag)
           /\ \E h \in Headers(tag), d \in Headers("vdW") :
                  header = [t \in {tag} \cup DEPENDENCIES(tag) |->
                               IF t = tag THEN h
                               ELSE IF tag = "Electrostatics" THEN d ELSE DefaultHeader(t)]
    /\ constrained = NoConstraints
    /\ system = EmptySystem
    /\ ran = <<>>
    /\ outcome = NoOutcome

\* nothing assigned, constructed, looked up or compared yet
InitSchema ==
    /\ attribute = [status |-> ""]
    /\ record = [stage |-> ""]
    /\ parameter_list = <<>>
    /\ listop = [op |-> ""]
    /\ compat = [status |-> ""]
    /\ handler = [stage |-> ""]

Init ==
    /\ InitEngine
    /\ found = NoFound
    /\ audit = NoAudit
    /\ InitSchema

-----------------------------------------------------------------------------
(* The operations *)

\* what a create_force call leaves behind
Called(tag, r) ==
    /\ system' = r.system
    /\ constrained' = r.constrained
    /\ parameters' = [parameters EXCEPT ![tag] = r.parameters]
    /\ outcome' = [op |-> tag, status |-> r.status, report |-> r.report]
    /\ ran' = Append(ran, tag)
    /\ UNCHANGED <<topology, header, found, audit, schemaVars>>

\* a handler of the force field is invoked once per topology
Callable(tag) == tag \in DOMAIN parameters /\ tag \notin Range(ran)

ConstraintCreateForce ==
    /\ Callable("Constraints")
    /\ Called("Constraints",
              ConstraintHandler_create_force(system, topology, constrained,
                                             parameters["Constraints"], header["Constraints"]))

BondCreateForce ==
    /\ Callable("Bonds")
    /\ Called("Bonds",
              BondHandler_create_force(system, topology, constrained,
                                       parameters["Bonds"], header["Bonds"]))

AngleCreateForce ==
    /\ Callable("Angles")
    /\ Called("Angles",
              AngleHandler_create_force(system, topology, constrained,
                                        parameters["Angles"], header["Angles"]))

ProperTorsionCreateForce ==
    /\ Callable("ProperTorsions")
    /\ Called("ProperTorsions",
              ProperTorsionHandler_create_force(system, topology, constrained,
                                                parameters["ProperTorsions"],
                                                header["ProperTorsions"]))

ImproperTorsionCreateForce ==
    /\ Callable("ImproperTorsions")
    /\ Called("ImproperTorsions",
              ImproperTorsionHandler_create_force(system, topology, constrained,
                                                  parameters["ImproperTorsions"],
                                                  header["ImproperTorsions"]))

vdWCreateForce ==
    /\ Callable("vdW")
    /\ Called("vdW",
              vdWHandler_create_force(system, topology, constrained,
                                      parameters["vdW"], header["vdW"]))

ElectrostaticsCreateForce ==
    /\ Callable("Electrostatics")
    /\ Called("Electrostatics",
              ElectrostaticsHandler_create_force(system, topology, constrained,
                                                 parameters["Electrostatics"],
                                                 header["Electrostatics"]))

\* the keywords of ToolkitAM1BCCHandler.create_force: none, or
\* charge_from_molecules with molecules that are or are not isomorphic to
\* the reference molecule, the atom map straight or reversed
ChargeMolecules(top) ==
    {[is_isomorphic |-> b, partial_charges |-> [c \in 1..top.n |-> c],
      topology_atom_map |-> [c \in 1..top.n |-> IF r THEN top.n + 1 - c ELSE c]] :
        b \in BOOLEAN, r \in BOOLEAN}

ToolkitAM1BCCKwargs(top) ==
    {<<>>} \cup {("charge_from_molecules" :> mols) :
                    mols \in {<<>>} \cup {<<m>> : m \in ChargeMolecules(top)}}

\* what compute_partial_charges_am1bcc gives for the reference molecule
ComputedCharges(top) ==
    {[a \in 1..top.n |-> IF a = 1 THEN 0 - 1 ELSE IF a = top.n THEN 1 ELSE 0],
     [a \in 1..top.n |-> 7]}

\* what a call of ToolkitAM1BCCHandler.create_force leaves behind, the
\* keywords and the computed charges of the call included
ToolkitAM1BCCCalled ==
    /\ \E kwargs \in ToolkitAM1BCCKwargs(topology), computed \in ComputedCharges(topology) :
           \E r \in {ToolkitAM1BCCHandler_create_force(system, topology, constrained,
                                                       parameters["ToolkitAM1BCC"],
                                                       kwargs, computed)} :
               /\ system' = r.system
               /\ constrained' = r.constrained
               /\ outcome' = [op |-> "ToolkitAM1BCC", status |-> r.status, report |-> r.report,
                              kwargs |-> kwargs, computed |-> computed]
    /\ ran' = Append(ran, "ToolkitAM1BCC")
    /\ UNCHANGED <<topology, parameters, header, found, audit, schemaVars>>

ToolkitAM1BCCCreateForce == Callable("ToolkitAM1BCC") /\ ToolkitAM1BCCCalled

\* the postprocess phase runs after every handler's create_force
ToolkitAM1BCCPostprocess ==
    /\ "ToolkitAM1BCC" \in DOMAIN parameters
    /\ DOMAIN parameters \subseteq Range(ran)
    /\ "ToolkitAM1BCC.postprocess_system" \notin Range(ran)
    /\ \E r \in {ToolkitAM1BCCHandler_postprocess_system(system, topology, constrained,
                                                         parameters["ToolkitAM1BCC"])} :
           /\ system' = r.system
           /\ constrained' = r.constrained
           /\ outcome' = [op |-> "ToolkitAM1BCC.postprocess_system", status |-> r.status,
                          report |-> r.report]
    /\ ran' = Append(ran, "ToolkitAM1BCC.postprocess_system")
    /\ UNCHANGED <<topology, parameters, header, found, audit, schemaVars>>

Next ==
    \/ ConstraintCreateForce
    \/ BondCreateForce
    \/ AngleCreateForce
    \/ ProperTorsionCreateForce
    \/ ImproperTorsionCreateForce
    \/ vdWCreateForce
    \/ ElectrostaticsCreateForce
    \/ ToolkitAM1BCCCreateForce
    \/ ToolkitAM1BCCPostprocess

Spec == Init /\ [][Next]_vars

\* ParameterHandler.find_matches, called on its own
FindMatches ==
    /\ \E tag \in DOMAIN parameters :
           found' = [tag |-> tag, matches |-> find_matches(tag, parameters[tag], topology)]
    /\ UNCHANGED <<engineVars, audit, schemaVars>>

SpecFind == Init /\ [][FindMatches]_vars

-----------------------------------------------------------------------------
(* The completeness audit called on its own, on any assigned terms and any *)
(* list of valence terms                                                   *)

MaxTerms == 2

AuditTuples(dict_cls) ==
    IF dict_cls = "ImproperDict"
    THEN {t \in [1..4 -> 0..3] : Distinct(t) /\ t[2] \in {1, 2}}
    ELSE {t \in [1..2 -> 0..2] : Distinct(t)}

\* the dictionaries with at most MaxTerms keys
AuditDicts(dict_cls) ==
    LET keys == {key_transform(dict_cls, t) : t \in AuditTuples(dict_cls)}
    IN  {[i \in 1..Len(s) |-> [key |-> s[i], val |-> Match(i, s[i])]] :
            s \in {q \in SeqsUpTo(keys, MaxTerms) : \A i, j \in 1..Len(q) : i # j => q[i] # q[j]}}

AuditInputs ==
    UNION {
        {[handler_cls |-> "BondHandler", dict_cls |-> dict_cls, exception_cls |-> exception_cls,
          assigned |-> assigned_terms, valence_terms |-> valence_terms,
          status |-> "", report |-> NoReport] :
            assigned_terms \in AuditDicts(dict_cls),
            valence_terms \in SeqsUpTo(AuditTuples(dict_cls), MaxTerms),
            exception_cls \in {"UnassignedValenceParameterException",
                               "UnassignedBondParameterException"}} :
        dict_cls \in {"ValenceDict", "ImproperDict"}}

\* no force field loaded, no topology processed
InitIdleEngine ==
    /\ topology = Chain
    /\ parameters = ("Bonds" :> <<>>)
    /\ header = ("Bonds" :> DefaultHeader("Bonds"))
    /\ constrained = NoConstraints
    /\ system = EmptySystem
    /\ ran = <<>>
    /\ outcome = NoOutcome
    /\ found = NoFound

InitAudit ==
    /\ InitIdleEngine
    /\ audit \in AuditInputs
    /\ InitSchema

CheckAllValenceTermsAssigned ==
    /\ audit.status = ""
    /\ LET r == audited(Started(EmptySystem, NoConstraints, <<>>), audit.handler_cls,
                        audit.dict_cls, audit.assigned, audit.valence_terms,
                        audit.exception_cls)
       IN  audit' = [audit EXCEPT !.status = r.status, !.report = r.report]
    /\ UNCHANGED <<engineVars, found, schemaVars>>

SpecAudit == InitAudit /\ [][CheckAllValenceTermsAssigned]_vars

-----------------------------------------------------------------------------
(* Attribute values: None, int, float, str and Quantity (a number with a   *)
(* unit), each tagged with its Python type.                                *)

UNDEFINED == [t |-> "UNDEFINED"]
PyInt(n) == [t |-> "int", v |-> n]
PyFloat(n) == [t |-> "float", v |-> n]
PyStr(x) == [t |-> "str", v |-> x]
Quantity(v, u) == [t |-> "Quantity", v |-> v, unit |-> u]

Dimension(u) ==
    CASE u \in {"angstrom", "nanometer"} -> "length"
      [] u = "degree" -> "angle"
      [] u = "kilocalorie_per_mole" -> "energy"
      [] u = "kilocalorie_per_mole/angstrom**2" -> "energy/length**2"
      [] OTHER -> "dimensionless"

\* Unit.is_compatible
is_compatible(u1, u2) == Dimension(u1) = Dimension(u2)

\* the number of a Quantity in the base unit of its dimension: 1 nanometer is 10 angstrom
InBaseUnit(q) == IF q.unit = "nanometer" THEN 10 * q.v ELSE q.v

\* Python's == on two scalars: numbers by value, quantities after unit conversion
ScalarEq(a, b) ==
    IF a.t \in {"int", "float"} /\ b.t \in {"int", "float"} THEN a.v = b.v
    ELSE IF a.t = "Quantity" /\ b.t = "Quantity"
    THEN is_compatible(a.unit, b.unit) /\ InBaseUnit(a) = InBaseUnit(b)
    ELSE IF a.t = "str" /\ b.t = "str" THEN a.v = b.v
    ELSE a.t = b.t /\ a.t \in {"None", "True", "False"}

\* Python's == on two values, lists element by element
PyEq(a, b) ==
    IF a.t = "list" /\ b.t = "list"
    THEN /\ Len(a.items) = Len(b.items)
         /\ \A i \in 1..Len(a.items) : ScalarEq(a.items[i], b.items[i])
    ELSE IF a.t = "list" \/ b.t = "list" THEN FALSE
    ELSE ScalarEq(a, b)

\* string_to_quantity on the expressions used here: "<number> * <unit>" gives
\* the Quantity, a bare number gives the number
string_to_quantity(text) ==
    CASE text = "1 * angstrom" -> Quantity(1, "angstrom")
      [] text = "2 * angstrom" -> Quantity(2, "angstrom")
      [] text = "1 * nanometer" -> Quantity(1, "nanometer")
      [] text = "1 * kilocalorie_per_mole" -> Quantity(1, "kilocalorie_per_mole")
      [] text = "2 * kilocalorie_per_mole" -> Quantity(2, "kilocalorie_per_mole")
      [] text = "0 * degree" -> Quantity(0, "degree")
      [] text = "180 * degree" -> Quantity(180, "degree")
      [] text = "1" -> PyInt(1)
      [] text = "2" -> PyInt(2)
      [] text = "3" -> PyInt(3)
      [] OTHER -> PyStr(text)

\* object_to_quantity: a Quantity is kept, a string is parsed, a plain number
\* becomes a dimensionless Quantity
object_to_quantity(value) ==
    CASE value.t = "str" -> string_to_quantity(value.v)
      [] value.t \in {"int", "float"} -> Quantity(value.v, "dimensionless")
      [] OTHER -> value

-----------------------------------------------------------------------------
(* ParameterAttribute: a descriptor is [name, indexed, default, unit,      *)
(* converter], unit "" and converter "" meaning none.  An assignment gives *)
(* [status, value, message, calls]: status "ok" or the exception raised,   *)
(* calls the arguments of each call of the custom converter.               *)

Descriptor(name, indexed, default, unit, converter) ==
    [name |-> name, indexed |-> indexed, default |-> default, unit |-> unit,
     converter |-> converter]

NoMessage == [attribute |-> "", value |-> NoneV, unit |-> ""]

Returned(value, calls) ==
    [status |-> "ok", value |-> value, message |-> NoMessage, calls |-> calls]

Raised(exception, message, calls) ==
    [status |-> exception, value |-> NoneV, message |-> message, calls |-> calls]

\* ParameterAttribute._is_valid_default
is_valid_default(descriptor, value) ==
    descriptor.default.t # "UNDEFINED" /\ PyEq(value, descriptor.default)

\* the try block of _validate_units on the converted value: an incompatible
\* unit, or no .unit attribute at all, raises IncompatibleUnitError
check_unit(descriptor, quantity) ==
    IF quantity.t = "Quantity" /\ is_compatible(descriptor.unit, quantity.unit)
    THEN Returned(quantity, <<>>)
    ELSE Raised("IncompatibleUnitError",
                [attribute |-> descriptor.name, value |-> quantity, unit |-> descriptor.unit],
                <<>>)

\* ParameterAttribute._validate_units
validate_units(descriptor, value) ==
    IF descriptor.unit = "" THEN Returned(value, <<>>)
    ELSE check_unit(descriptor, object_to_quantity(value))

ValidSmirks == {"[*:1]", "[*:1]~[*:2]", "[#6:1]-[#1:2]", "[*:1]~[*:2]~[*:3]~[*:4]"}

StaticConverters == {"int", "float", "to_angstrom"}

\* what the converter function does with its value, or the exception it raises
converter_result(converter, value) ==
    CASE converter = "int" ->
            IF value.t \in {"int", "float"} THEN [status |-> "ok", value |-> PyInt(value.v)]
            ELSE IF value.t = "str" /\ string_to_quantity(value.v).t = "int"
            THEN [status |-> "ok", value |-> PyInt(string_to_quantity(value.v).v)]
            ELSE IF value.t = "str" THEN [status |-> "ValueError", value |-> NoneV]
            ELSE [status |-> "TypeError", value |-> NoneV]
      [] converter = "float" ->
            IF value.t \in {"int", "float"} THEN [status |-> "ok", value |-> PyFloat(value.v)]
            ELSE IF value.t = "str" /\ string_to_quantity(value.v).t = "int"
            THEN [status |-> "ok", value |-> PyFloat(string_to_quantity(value.v).v)]
            ELSE IF value.t = "str" THEN [status |-> "ValueError", value |-> NoneV]
            ELSE [status |-> "TypeError", value |-> NoneV]
      \* value.in_units_of(unit.angstrom)
      [] converter \in {"to_angstrom", "normalize"} ->
            IF value.t = "Quantity" /\ is_compatible(value.unit, "angstrom")
            THEN [status |-> "ok", value |-> Quantity(InBaseUnit(value), "angstrom")]
            ELSE IF value.t = "Quantity" THEN [status |-> "TypeError", value |-> NoneV]
            ELSE [status |-> "AttributeError", value |-> NoneV]
      \* MyParameterType.attr_int_to_float: integers become floats, floats are
      \* kept, anything else raises TypeError
      [] converter = "int_to_float" ->
            IF value.t = "int" THEN [status |-> "ok", value |-> PyFloat(value.v)]
            ELSE IF value.t = "float" THEN [status |-> "ok", value |-> value]
            ELSE [status |-> "TypeError", value |-> NoneV]
      \* ChemicalEnvironment.validate
      [] converter = "smirks" ->
            IF value.t = "str" /\ value.v \in ValidSmirks THEN [status |-> "ok", value |-> value]
            ELSE [status |-> "SMIRKSParsingError", value |-> NoneV]

\* the calls of the converter: converter(value) and
\* converter(instance, self, value)
StaticCall(value) == [args |-> "value", value |-> value]
InstanceCall(value) == [args |-> "instance, attribute, value", value |-> value]

\* the try/except of _call_converter, r being what the function does with
\* the value: a static function is called once, unless it raises TypeError,
\* and then the retry passes three arguments to a one-argument function; an
\* instance method raises TypeError on the first call and runs in the retry
converter_called(descriptor, value, r) ==
    IF descriptor.converter \in StaticConverters
    THEN IF r.status = "ok" THEN Returned(r.value, <<StaticCall(value)>>)
         ELSE IF r.status = "TypeError"
         THEN Raised("TypeError", NoMessage, <<StaticCall(value), InstanceCall(value)>>)
         ELSE Raised(r.status, NoMessage, <<StaticCall(value)>>)
    ELSE IF r.status = "ok"
    THEN Returned(r.value, <<StaticCall(value), InstanceCall(value)>>)
    ELSE Raised(r.status, NoMessage, <<StaticCall(value), InstanceCall(value)>>)

\* ParameterAttribute._call_converter
call_converter(descriptor, value) ==
    IF descriptor.converter = "" THEN Returned(value, <<>>)
    ELSE converter_called(descriptor, value, converter_result(descriptor.converter, value))

\* "value = self._call_converter(value, instance)" after _validate_units
\* returned or raised u
then_call_converter(descriptor, u) ==
    IF u.status # "ok" THEN u ELSE call_converter(descriptor, u.value)

WithCalls(u, calls) == [u EXCEPT !.calls = calls]

then_validate_units(descriptor, c) ==
    IF c.status # "ok" THEN c
    ELSE WithCalls(validate_units(descriptor, c.value), c.calls)

convert_before_validate(descriptor, value) ==
    IF is_valid_default(descriptor, value) THEN Returned(value, <<>>)
    ELSE then_validate_units(descriptor, call_converter(descriptor, value))

\* ParameterAttribute._convert_and_validate
convert_and_validate(descriptor, value) ==
    IF is_valid_default(descriptor, value) THEN Returned(value, <<>>)
    ELSE then_call_converter(descriptor, validate_units(descriptor, value))

\* the descriptors and values one assignment is tried with; None is assigned
\* only where it is the default or no unit is declared
AttributeDescriptors ==
    {Descriptor("attr", FALSE, default, unit, converter) :
        default \in {UNDEFINED, NoneV, Quantity(1, "nanometer")},
        unit \in {"", "angstrom"},
        converter \in {"", "float", "to_angstrom", "normalize"}}

AttributeValues ==
    {NoneV, Quantity(1, "angstrom"), Quantity(10, "angstrom"), Quantity(1, "nanometer"),
     Quantity(1, "kilocalorie_per_mole"), PyStr("1 * angstrom"), PyStr("1 * nanometer"),
     PyStr("1 * kilocalorie_per_mole"), PyStr("2"), PyInt(2), PyFloat(2)}

AttributeInputs ==
    {[descriptor |-> d, value |-> v, status |-> "", stored |-> UNDEFINED,
      message |-> NoMessage, calls |-> <<>>] :
        d \in AttributeDescriptors,
        v \in AttributeValues}

InitAttribute ==
    /\ InitIdleEngine
    /\ audit = NoAudit
    /\ attribute \in {a \in AttributeInputs :
                         a.value.t = "None" => (a.descriptor.default.t = "None"
                                                \/ a.descriptor.unit = "")}
    /\ record = [stage |-> ""]
    /\ parameter_list = <<>>
    /\ listop = [op |-> ""]
    /\ compat = [status |-> ""]
    /\ handler = [stage |-> ""]

\* ParameterAttribute.__set__: the converted value is stored, or the
\* exception leaves the instance as it was
SetAttribute ==
    /\ attribute.status = ""
    /\ \E r \in {convert_and_validate(attribute.descriptor, attribute.value)} :
           attribute' = [attribute EXCEPT
                            !.status = r.status,
                            !.stored = IF r.status = "ok" THEN r.value ELSE @,
                            !.message = r.message,
                            !.calls = r.calls]
    /\ UNCHANGED <<engineVars, found, audit, record, parameter_list, listop, compat, handler>>

SpecAttribute == InitAttribute /\ [][SetAttribute]_vars

-----------------------------------------------------------------------------
(* _ParameterAttributeInitializer and the record classes.  Keyword         *)
(* arguments and dictionaries are insertion-ordered sequences of           *)
(* [key, val].  An instance is [dict, cosmetic_attribs]: dict is the       *)
(* instance __dict__ without _cosmetic_attribs, its keys '_' + name for    *)
(* schema and cosmetic attributes alike.                                   *)

SetItem(d, key, val) ==
    IF \E i \in 1..Len(d) : d[i].key = key
    THEN [i \in 1..Len(d) |-> IF d[i].key = key THEN [key |-> key, val |-> val] ELSE d[i]]
    ELSE Append(d, [key |-> key, val |-> val])

DelItem(d, key) == SelectSeq(d, LAMBDA e : e.key # key)

\* ParameterType: smirks, id, parent_id, inherited by every record class
ParameterType_attributes ==
    <<Descriptor("smirks", FALSE, UNDEFINED, "", "smirks"),
      Descriptor("id", FALSE, NoneV, "", ""),
      Descriptor("parent_id", FALSE, NoneV, "", "")>>

TorsionType_attributes ==
    <<Descriptor("periodicity", TRUE, UNDEFINED, "", "int"),
      Descriptor("phase", TRUE, UNDEFINED, "degree", ""),
      Descriptor("k", TRUE, UNDEFINED, "kilocalorie_per_mole", ""),
      Descriptor("idivf", TRUE, NoneV, "", "float")>>

\* _get_parameter_attributes: the descriptors of the class and its parents
\* in declaration order, the parent's first
get_parameter_attributes(cls) ==
    ParameterType_attributes \o
    CASE cls = "ConstraintType" -> <<Descriptor("distance", FALSE, NoneV, "angstrom", "")>>
      [] cls = "BondType" ->
            <<Descriptor("length", FALSE, UNDEFINED, "angstrom", ""),
              Descriptor("k", FALSE, UNDEFINED, "kilocalorie_per_mole/angstrom**2", "")>>
      [] cls \in {"ProperTorsionType", "ImproperTorsionType"} -> TorsionType_attributes
      [] cls = "vdWType" ->
            <<Descriptor("epsilon", FALSE, UNDEFINED, "kilocalorie_per_mole", ""),
              Descriptor("sigma", FALSE, NoneV, "angstrom", ""),
              Descriptor("rmin_half", FALSE, NoneV, "angstrom", "")>>
      \* the class of the ParameterType docstring: an optional attribute with
      \* default 2, a float converter, a converter method
      [] cls = "MyParameterType" ->
            <<Descriptor("attr_optional", FALSE, PyInt(2), "", ""),
              Descriptor("attr_all_to_float", FALSE, UNDEFINED, "", "float"),
              Descriptor("attr_int_to_float", FALSE, UNDEFINED, "", "int_to_float")>>

get_indexed_parameter_attributes(cls) ==
    SelectSeq(get_parameter_attributes(cls), LAMBDA d : d.indexed)

get_required_parameter_attributes(cls) ==
    SelectSeq(get_parameter_attributes(cls), LAMBDA d : d.default.t = "UNDEFINED")

get_optional_parameter_attributes(cls) ==
    SelectSeq(get_parameter_attributes(cls), LAMBDA d : d.default.t # "UNDEFINED")

Names(descriptors) == {descriptors[i].name : i \in 1..Len(descriptors)}

DescriptorOf(cls, name) ==
    CHOOSE d \in Range(get_parameter_attributes(cls)) : d.name = name

NoInstance == [dict |-> <<>>, cosmetic_attribs |-> <<>>]

\* ValidatedList(value, converter=[_validate_units, _call_converter]):
\* each element is validated, then converted; the first exception ends it
RECURSIVE ValidatedList(_, _, _, _)
RECURSIVE ValidatedList_append(_, _, _, _, _)
ValidatedList_append(descriptor, items, i, done, c) ==
    IF c.status # "ok" THEN c
    ELSE ValidatedList(descriptor, items, i + 1, Append(done, c.value))

ValidatedList(descriptor, items, i, done) ==
    IF i > Len(items) THEN Returned(List(done), <<>>)
    ELSE ValidatedList_append(descriptor, items, i, done,
             then_call_converter(descriptor, validate_units(descriptor, items[i])))

\* IndexedParameterAttribute._convert_and_validate
indexed_convert_and_validate(descriptor, value) ==
    IF is_valid_default(descriptor, value) THEN Returned(value, <<>>)
    ELSE IF value.t # "list" THEN Raised("TypeError", NoMessage, <<>>)
    ELSE ValidatedList(descriptor, value.items, 1, <<>>)

\* "setattr(instance, self._name, value)" of __set__, r being what
\* _convert_and_validate returned or raised
store_value(instance, descriptor, r) ==
    IF r.status # "ok" THEN [status |-> r.status, instance |-> instance]
    ELSE [status |-> "ok",
          instance |-> [instance EXCEPT !.dict = SetItem(@, "_" \o descriptor.name, r.value)]]

\* ParameterAttribute.__set__ through setattr(self, key, val)
setattr(instance, descriptor, value) ==
    store_value(instance, descriptor,
                IF descriptor.indexed THEN indexed_convert_and_validate(descriptor, value)
                ELSE convert_and_validate(descriptor, value))

\* ParameterAttribute.__get__ on an instance; an unset attribute reads as
\* its default
getattr(instance, descriptor) ==
    IF ("_" \o descriptor.name) \in Keys(instance.dict)
    THEN Lookup(instance.dict, "_" \o descriptor.name)
    ELSE descriptor.default

add_cosmetic_attribute(instance, attr_name, attr_value) ==
    [dict |-> SetItem(instance.dict, "_" \o attr_name, attr_value),
     cosmetic_attribs |-> Append(instance.cosmetic_attribs, attr_name)]

\* the "while True" loop of __init__ for one indexed attribute: base1,
\* base2, ... are moved, in index order, into a list under base
RECURSIVE stack_indexed(_, _, _)
stack_indexed(smirnoff_data, attrib_basename, index) ==
    LET attrib_w_index == attrib_basename \o ToString(index)
    IN  IF attrib_w_index \notin Keys(smirnoff_data)
        THEN [status |-> "ok", data |-> smirnoff_data, index |-> index]
        ELSE IF index = 1 /\ attrib_basename \in Keys(smirnoff_data)
        THEN [status |-> "TypeError", data |-> smirnoff_data, index |-> index]
        ELSE LET created == IF index = 1
                            THEN SetItem(smirnoff_data, attrib_basename, List(<<>>))
                            ELSE smirnoff_data
                 appended == SetItem(created, attrib_basename,
                                     List(Append(Lookup(created, attrib_basename).items,
                                                 Lookup(smirnoff_data, attrib_w_index))))
             IN  stack_indexed(DelItem(appended, attrib_w_index), attrib_basename, index + 1)

RECURSIVE stack_indexed_reversed(_, _, _)
stack_indexed_reversed(smirnoff_data, attrib_basename, index) ==
    LET attrib_w_index == attrib_basename \o ToString(index)
    IN  IF attrib_w_index \notin Keys(smirnoff_data)
        THEN [status |-> "ok", data |-> smirnoff_data, index |-> index]
        ELSE IF index = 1 /\ attrib_basename \in Keys(smirnoff_data)
        THEN [status |-> "TypeError", data |-> smirnoff_data, index |-> index]
        ELSE LET created == IF index = 1
                            THEN SetItem(smirnoff_data, attrib_basename, List(<<>>))
                            ELSE smirnoff_data
                 prepended == SetItem(created, attrib_basename,
                                      List(<<Lookup(smirnoff_data, attrib_w_index)>>
                                           \o Lookup(created, attrib_basename).items))
             IN  stack_indexed_reversed(DelItem(prepended, attrib_w_index),
                                        attrib_basename, index + 1)

stack_from_last(smirnoff_data, attrib_basename) ==
    stack_indexed_reversed(smirnoff_data, attrib_basename, 1)

\* one turn of "for attrib_basename in indexed attributes", index = 1
stack_indexed_attribute(smirnoff_data, attrib_basename) ==
    stack_indexed(smirnoff_data, attrib_basename, 1)

\* the loop over the indexed attributes; lengths is
\* set(indexed_attr_lengths.values())
RECURSIVE stack_indexed_attributes(_, _, _, _)
RECURSIVE stack_next_attribute(_, _, _, _)
stack_next_attribute(r, indexed, i, lengths) ==
    IF r.status # "ok" THEN [status |-> r.status, data |-> r.data, lengths |-> lengths]
    ELSE stack_indexed_attributes(
             r.data, indexed, i + 1,
             IF r.index > 1 THEN lengths \cup {Len(Lookup(r.data, indexed[i].name).items)}
             ELSE lengths)

stack_indexed_attributes(smirnoff_data, indexed, i, lengths) ==
    IF i > Len(indexed) THEN [status |-> "ok", data |-> smirnoff_data, lengths |-> lengths]
    ELSE stack_next_attribute(stack_indexed_attribute(smirnoff_data, indexed[i].name),
                              indexed, i, lengths)

\* "for key, val in smirnoff_data.items()": schema keys go through their
\* descriptor, other keys become cosmetic attributes or end the construction
RECURSIVE set_attributes(_, _, _, _, _)
RECURSIVE set_next_attribute(_, _, _, _, _)
set_next_attribute(cls, r, smirnoff_data, allow_cosmetic_attributes, i) ==
    IF r.status # "ok" THEN r
    ELSE set_attributes(cls, r.instance, smirnoff_data, allow_cosmetic_attributes, i + 1)

set_attribute_keeps_unknown(cls, instance, key, val, allow_cosmetic_attributes) ==
    IF key \in Names(get_parameter_attributes(cls))
    THEN setattr(instance, DescriptorOf(cls, key), val)
    ELSE [status |-> "ok", instance |-> add_cosmetic_attribute(instance, key, val)]

set_attribute(cls, instance, key, val, allow_cosmetic_attributes) ==
    IF key \in Names(get_parameter_attributes(cls))
    THEN setattr(instance, DescriptorOf(cls, key), val)
    ELSE IF allow_cosmetic_attributes
    THEN [status |-> "ok", instance |-> add_cosmetic_attribute(instance, key, val)]
    ELSE [status |-> "SMIRNOFFSpecError", instance |-> instance]

set_attributes(cls, instance, smirnoff_data, allow_cosmetic_attributes, i) ==
    IF i > Len(smirnoff_data) THEN [status |-> "ok", instance |-> instance]
    ELSE set_next_attribute(cls,
                            set_attribute(cls, instance, smirnoff_data[i].key,
                                          smirnoff_data[i].val, allow_cosmetic_attributes),
                            smirnoff_data, allow_cosmetic_attributes, i)

\* a constructor that raised leaves no object behind
constructed(r) ==
    IF r.status = "ok" THEN r ELSE [status |-> r.status, instance |-> NoInstance]

\* __init__ after the indexed attributes were stacked: the lengths check, the
\* check for missing required attributes, the assignments
init_stacked(cls, stacked, allow_cosmetic_attributes) ==
    IF stacked.status # "ok" THEN [status |-> stacked.status, instance |-> NoInstance]
    ELSE IF Cardinality(stacked.lengths) > 1
    THEN [status |-> "TypeError", instance |-> NoInstance]
    ELSE IF Names(get_required_parameter_attributes(cls)) \ Keys(stacked.data) # {}
    THEN [status |-> "SMIRNOFFSpecError", instance |-> NoInstance]
    ELSE constructed(set_attributes(cls, NoInstance, stacked.data,
                                    allow_cosmetic_attributes, 1))

\* _ParameterAttributeInitializer.__init__
ParameterAttributeInitializer_init(cls, kwargs, allow_cosmetic_attributes) ==
    init_stacked(cls,
                 stack_indexed_attributes(kwargs, get_indexed_parameter_attributes(cls), 1, {}),
                 allow_cosmetic_attributes)

\* ParameterType.__init__(self, smirks, allow_cosmetic_attributes, **kwargs):
\* smirks is a positional argument, put back into kwargs as the last key
ParameterType_init(cls, kwargs, allow_cosmetic_attributes) ==
    IF "smirks" \notin Keys(kwargs) THEN [status |-> "TypeError", instance |-> NoInstance]
    ELSE ParameterAttributeInitializer_init(
             cls, SetItem(DelItem(kwargs, "smirks"), "smirks", Lookup(kwargs, "smirks")),
             allow_cosmetic_attributes)

\* vdWType.__init__: exactly one of sigma and rmin_half
vdWType_init(kwargs, allow_cosmetic_attributes) ==
    LET sigma == IF "sigma" \in Keys(kwargs) THEN Lookup(kwargs, "sigma") ELSE NoneV
        rmin_half == IF "rmin_half" \in Keys(kwargs) THEN Lookup(kwargs, "rmin_half") ELSE NoneV
    IN  IF (sigma.t = "None") = (rmin_half.t = "None")
        THEN [status |-> "SMIRNOFFSpecError", instance |-> NoInstance]
        ELSE ParameterType_init("vdWType", kwargs, allow_cosmetic_attributes)

\* cls(**kwargs, allow_cosmetic_attributes=...)
new_record(cls, kwargs, allow_cosmetic_attributes) ==
    IF cls = "vdWType" THEN vdWType_init(kwargs, allow_cosmetic_attributes)
    ELSE ParameterType_init(cls, kwargs, allow_cosmetic_attributes)

get_changed_parameter_attributes(cls, instance) ==
    get_required_parameter_attributes(cls) \o
    SelectSeq(get_optional_parameter_attributes(cls),
              LAMBDA d : ~PyEq(getattr(instance, d), d.default))

\* _get_defined_parameter_attributes: the required attributes, then the
\* optional ones except those with default None that are still None
get_defined_parameter_attributes(cls, instance) ==
    get_required_parameter_attributes(cls) \o
    SelectSeq(get_optional_parameter_attributes(cls),
              LAMBDA d : ~(d.default.t = "None" /\ PyEq(getattr(instance, d), d.default)))

\* "for idx, val in enumerate(attrib_value)"
RECURSIVE to_dict_indexed(_, _, _, _)
to_dict_indexed(smirnoff_dict, attrib_name, items, idx) ==
    IF idx > Len(items) THEN smirnoff_dict
    ELSE to_dict_indexed(SetItem(smirnoff_dict, attrib_name \o ToString(idx), items[idx]),
                         attrib_name, items, idx + 1)

\* "for attrib_name in attribs_to_return"
RECURSIVE to_dict_attribs(_, _, _, _)
to_dict_attribs(instance, attribs, i, smirnoff_dict) ==
    IF i > Len(attribs) THEN smirnoff_dict
    ELSE LET attrib_value == getattr(instance, attribs[i])
         IN  to_dict_attribs(instance, attribs, i + 1,
                 IF attribs[i].indexed
                 THEN to_dict_indexed(smirnoff_dict, attribs[i].name, attrib_value.items, 1)
                 ELSE SetItem(smirnoff_dict, attribs[i].name, attrib_value))

\* "for cosmetic_attrib in self._cosmetic_attribs"
RECURSIVE to_dict_cosmetic(_, _, _)
to_dict_cosmetic(instance, i, smirnoff_dict) ==
    IF i > Len(instance.cosmetic_attribs) THEN smirnoff_dict
    ELSE to_dict_cosmetic(instance, i + 1,
             SetItem(smirnoff_dict, instance.cosmetic_attribs[i],
                     Lookup(instance.dict, "_" \o instance.cosmetic_attribs[i])))

\* "getattr(self, attrib_name)" of a required attribute that has no stored
\* value and "getattr(self, '_' + cosmetic_attrib)" of a listed name that has
\* none raise AttributeError
to_dict_raises(cls, instance, discard_cosmetic_attributes) ==
    \/ \E d \in Range(get_required_parameter_attributes(cls)) :
           ("_" \o d.name) \notin Keys(instance.dict)
    \/ /\ ~discard_cosmetic_attributes
       /\ \E i \in 1..Len(instance.cosmetic_attribs) :
              ("_" \o instance.cosmetic_attribs[i]) \notin Keys(instance.dict)

\* _ParameterAttributeInitializer.to_dict
to_dict(cls, instance, discard_cosmetic_attributes) ==
    to_dict_cosmetic(IF discard_cosmetic_attributes
                     THEN [instance EXCEPT !.cosmetic_attribs = <<>>] ELSE instance,
                     1,
                     to_dict_attribs(instance, get_defined_parameter_attributes(cls, instance),
                                     1, <<>>))

(* The keyword arguments records are constructed from.  An indexed         *)
(* attribute is absent, given as a list of n elements, given as the keys   *)
(* base1..basen, or given both ways; periodicity and phase come in the     *)
(* same form.                                                              *)

MaxIndexed == 2

IndexedForms ==
    {[form |-> "absent", n |-> 0], [form |-> "both", n |-> 1]}
        \cup {[form |-> "list", n |-> n] : n \in 0..MaxIndexed}
        \cup {[form |-> "suffix", n |-> n] : n \in 1..MaxIndexed}

\* the i-th element of an indexed attribute: the first as text
ElementValue(base, i) ==
    CASE base = "periodicity" -> IF i = 1 THEN PyStr("2") ELSE PyInt(i)
      [] base = "phase" -> IF i = 1 THEN PyStr("180 * degree") ELSE Quantity(0, "degree")
      [] base = "k" -> IF i = 1 THEN PyStr("1 * kilocalorie_per_mole")
                       ELSE Quantity(i, "kilocalorie_per_mole")
      [] base = "idivf" -> IF i = 1 THEN PyStr("1") ELSE PyFloat(i)

Item(key, val) == [key |-> key, val |-> val]

IndexedKwargs(base, f) ==
    CASE f.form = "absent" -> <<>>
      [] f.form = "list" -> <<Item(base, List([i \in 1..f.n |-> ElementValue(base, i)]))>>
      [] f.form = "suffix" -> [i \in 1..f.n |-> Item(base \o ToString(i), ElementValue(base, i))]
      [] f.form = "both" -> <<Item(base, List(<<ElementValue(base, 1)>>)),
                              Item(base \o "1", ElementValue(base, 1))>>

\* none, a cosmetic key, a numbered key of k beyond every sequence given
ExtraKwargs ==
    {<<>>, <<Item("pilot", PyStr("alice"))>>,
     <<Item("k" \o ToString(MaxIndexed + 2), Quantity(1, "kilocalorie_per_mole"))>>}

Optional(key, values) == {<<>>} \cup {<<Item(key, v)>> : v \in values}

TorsionKwargs ==
    {IndexedKwargs("periodicity", pp) \o IndexedKwargs("phase", pp) \o IndexedKwargs("k", kf)
        \o IndexedKwargs("idivf", df) \o id \o extra
        \o <<Item("smirks", PyStr("[*:1]~[*:2]~[*:3]~[*:4]"))>> :
        pp \in IndexedForms, kf \in IndexedForms, df \in IndexedForms,
        id \in Optional("id", {PyStr("t1")}), extra \in ExtraKwargs}

ScalarKwargs(cls) ==
    CASE cls = "ConstraintType" ->
            {smirks \o distance \o extra :
                smirks \in Optional("smirks", {PyStr("[#6:1]-[#1:2]"), PyStr("[#6:1]-[#1:2")}),
                distance \in Optional("distance", {NoneV, Quantity(1, "angstrom"),
                                                   PyStr("1 * nanometer"), PyInt(2)}),
                extra \in ExtraKwargs}
      [] cls = "BondType" ->
            {smirks \o length \o k \o extra :
                smirks \in {<<Item("smirks", PyStr("[#6:1]-[#1:2]"))>>},
                length \in Optional("length", {PyStr("1 * angstrom"), Quantity(1, "nanometer"),
                                               Quantity(1, "kilocalorie_per_mole")}),
                k \in Optional("k", {Quantity(1, "kilocalorie_per_mole/angstrom**2")}),
                extra \in ExtraKwargs}
      [] cls = "vdWType" ->
            {smirks \o epsilon \o sigma \o rmin_half \o extra :
                smirks \in Optional("smirks", {PyStr("[*:1]")}),
                epsilon \in Optional("epsilon", {PyStr("1 * kilocalorie_per_mole")}),
                sigma \in Optional("sigma", {NoneV, Quantity(1, "angstrom")}),
                rmin_half \in Optional("rmin_half", {NoneV, PyStr("1 * angstrom")}),
                extra \in ExtraKwargs}
      [] cls = "MyParameterType" ->
            {smirks \o id \o attr_optional \o attr_all_to_float \o attr_int_to_float \o extra :
                smirks \in {<<Item("smirks", PyStr("[*:1]"))>>},
                id \in Optional("id", {NoneV, PyStr("n1")}),
                attr_optional \in Optional("attr_optional", {PyInt(2), PyFloat(2), PyInt(3)}),
                attr_all_to_float \in Optional("attr_all_to_float", {PyStr("3"), NoneV}),
                attr_int_to_float \in {<<Item("attr_int_to_float", v)>> :
                                          v \in {PyInt(1), PyFloat(1), PyStr("2")}},
                extra \in ExtraKwargs}

Op(op, name, value, status) == [op |-> op, name |-> name, value |-> value, status |-> status]

NoOp == Op("", "", NoneV, "")

RecordInputs ==
    {[stage |-> "", cls |-> cls, kwargs |-> kwargs, allow |-> allow, status |-> "",
      instance |-> NoInstance, nops |-> 0, last |-> NoOp, discard |-> FALSE,
      dict_status |-> "", dict |-> <<>>,
      copy_status |-> "", copy |-> NoInstance] :
        cls \in {"ProperTorsionType", "ImproperTorsionType"},
        kwargs \in TorsionKwargs, allow \in BOOLEAN}
    \cup UNION {{[stage |-> "", cls |-> cls, kwargs |-> kwargs, allow |-> allow, status |-> "",
                  instance |-> NoInstance, nops |-> 0, last |-> NoOp, discard |-> FALSE,
                  dict_status |-> "", dict |-> <<>>,
                  copy_status |-> "", copy |-> NoInstance] :
                    kwargs \in ScalarKwargs(cls), allow \in BOOLEAN} :
                cls \in {"ConstraintType", "BondType", "vdWType", "MyParameterType"}}

InitRecord ==
    /\ InitIdleEngine
    /\ audit = NoAudit
    /\ attribute = [status |-> ""]
    /\ record \in RecordInputs
    /\ parameter_list = <<>>
    /\ listop = [op |-> ""]
    /\ compat = [status |-> ""]
    /\ handler = [stage |-> ""]

RecordUnchanged == UNCHANGED <<engineVars, found, audit, attribute, parameter_list, listop, compat, handler>>

\* cls(**kwargs, allow_cosmetic_attributes=allow)
Construct ==
    /\ record.stage = ""
    /\ \E r \in {new_record(record.cls, record.kwargs, record.allow)} :
           record' = [record EXCEPT !.stage = "constructed", !.status = r.status,
                                    !.instance = r.instance]
    /\ RecordUnchanged

\* x.to_dict(discard_cosmetic_attributes)
ToDict ==
    /\ record.stage = "constructed"
    /\ record.status = "ok"
    /\ \E discard_cosmetic_attributes \in BOOLEAN :
           record' = [record EXCEPT
                         !.stage = "serialized",
                         !.discard = discard_cosmetic_attributes,
                         !.dict_status =
                             IF to_dict_raises(record.cls, record.instance,
                                               discard_cosmetic_attributes)
                             THEN "AttributeError" ELSE "ok",
                         !.dict =
                             IF to_dict_raises(record.cls, record.instance,
                                               discard_cosmetic_attributes)
                             THEN <<>>
                             ELSE to_dict(record.cls, record.instance,
                                          discard_cosmetic_attributes)]
    /\ RecordUnchanged

\* cls(**x.to_dict(...), allow_cosmetic_attributes=True)
Reconstruct ==
    /\ record.stage = "serialized"
    /\ record.dict_status = "ok"
    /\ \E r \in {new_record(record.cls, record.dict, TRUE)} :
           record' = [record EXCEPT !.stage = "reconstructed", !.copy_status = r.status,
                                    !.copy = r.instance]
    /\ RecordUnchanged

NextRecord == Construct \/ ToDict \/ Reconstruct

SpecRecord == InitRecord /\ [][NextRecord]_vars

(* A constructed record is changed by assigning to its attributes and by   *)
(* adding and deleting cosmetic attributes; record.nops counts the calls,  *)
(* record.last is the last one and how it ended.                           *)

MaxOps == 2

\* delete_cosmetic_attribute: delattr, then list.remove of the first
\* occurrence; each can raise, the second after the first took effect
RECURSIVE list_remove(_, _)
list_remove(items, x) ==
    IF items = <<>> THEN <<>>
    ELSE IF Head(items) = x THEN Tail(items)
    ELSE <<Head(items)>> \o list_remove(Tail(items), x)

delete_cosmetic_attribute(instance, attr_name) ==
    IF ("_" \o attr_name) \notin Keys(instance.dict)
    THEN [status |-> "AttributeError", instance |-> instance]
    ELSE IF attr_name \notin Range(instance.cosmetic_attribs)
    THEN [status |-> "ValueError",
          instance |-> [instance EXCEPT !.dict = DelItem(@, "_" \o attr_name)]]
    ELSE [status |-> "ok",
          instance |-> [dict |-> DelItem(instance.dict, "_" \o attr_name),
                        cosmetic_attribs |-> list_remove(instance.cosmetic_attribs,
                                                         attr_name)]]

\* the values assigned to the attributes of a constructed record
Assignments(cls) ==
    CASE cls \in {"ProperTorsionType", "ImproperTorsionType"} ->
            {[name |-> base, value |-> List([i \in 1..n |-> ElementValue(base, i)])] :
                base \in {"k", "idivf"}, n \in 1..MaxIndexed}
            \cup {[name |-> "idivf", value |-> NoneV],
                  [name |-> "k", value |-> Quantity(1, "kilocalorie_per_mole")]}
      [] cls = "vdWType" ->
            {[name |-> name, value |-> value] :
                name \in {"sigma", "rmin_half"},
                value \in {NoneV, Quantity(2, "angstrom"), PyStr("1 * kilocalorie_per_mole")}}
      [] OTHER -> {[name |-> "id", value |-> PyStr("b2")]}

CosmeticNames == {"pilot", "smirks"}

CosmeticValues == {PyStr("alice"), PyStr("bob")}

MutableInputs ==
    {r \in RecordInputs :
        /\ r.cls \in {"ProperTorsionType", "vdWType", "BondType"}
        /\ r.allow
        /\ "id" \notin Keys(r.kwargs)
        /\ ("k" \o ToString(MaxIndexed + 2)) \notin Keys(r.kwargs)
        /\ "idivf1" \notin Keys(r.kwargs)
        /\ \A base \in {"periodicity", "k"} :
               base \notin Keys(r.kwargs) \/ (base \o "1") \notin Keys(r.kwargs)}

InitMutable ==
    /\ InitIdleEngine
    /\ audit = NoAudit
    /\ attribute = [status |-> ""]
    /\ record \in MutableInputs
    /\ parameter_list = <<>>
    /\ listop = [op |-> ""]
    /\ compat = [status |-> ""]
    /\ handler = [stage |-> ""]

Mutable ==
    /\ record.stage = "constructed"
    /\ record.status = "ok"
    /\ record.nops < MaxOps

\* x.name = value
Assign ==
    /\ Mutable
    /\ \E a \in Assignments(record.cls) :
       \E r \in {setattr(record.instance, DescriptorOf(record.cls, a.name), a.value)} :
           record' = [record EXCEPT
                         !.instance = r.instance,
                         !.nops = @ + 1,
                         !.last = Op("setattr", a.name, a.value, r.status)]
    /\ RecordUnchanged

\* x.add_cosmetic_attribute(attr_name, attr_value)
AddCosmetic ==
    /\ Mutable
    /\ \E attr_name \in CosmeticNames, attr_value \in CosmeticValues :
           record' = [record EXCEPT
                         !.instance = add_cosmetic_attribute(@, attr_name, attr_value),
                         !.nops = @ + 1,
                         !.last = Op("add_cosmetic_attribute", attr_name, attr_value,
                                     "ok")]
    /\ RecordUnchanged

\* x.delete_cosmetic_attribute(attr_name)
DeleteCosmetic ==
    /\ Mutable
    /\ \E attr_name \in CosmeticNames :
       \E r \in {delete_cosmetic_attribute(record.instance, attr_name)} :
           record' = [record EXCEPT
                         !.instance = r.instance,
                         !.nops = @ + 1,
                         !.last = Op("delete_cosmetic_attribute", attr_name, NoneV,
                                     r.status)]
    /\ RecordUnchanged

NextMutable == Construct \/ Assign \/ AddCosmetic \/ DeleteCosmetic \/ ToDict

SpecMutable == InitMutable /\ [][NextMutable]_vars

-----------------------------------------------------------------------------
(* ParameterList: a Python list of records with lookup and deletion by     *)
(* position or by SMIRKS.  A record here is [id, smirks]: id is the        *)
(* object's identity, two records may carry the same smirks.  An item is a *)
(* tagged int or str.  listop keeps the last operation, its argument, its  *)
(* outcome and the list it was applied to.                                 *)

MaxListLen == 3

ListRecords ==
    {[id |-> 1, smirks |-> "[*:1]"], [id |-> 2, smirks |-> "[*:1]"],
     [id |-> 3, smirks |-> "[#6:1]"]}

ListItems ==
    {PyStr(x) : x \in {"[*:1]", "[#6:1]", "[#8:1]"}}
        \cup {PyInt(i) : i \in (0 - MaxListLen - 1)..MaxListLen}

\* list.index(parameter), 0-based: the first position holding the object
list_index(l, parameter) ==
    LET found_at == {i \in 1..Len(l) : l[i].id = parameter.id}
    IN  IF found_at = {} THEN [status |-> "ValueError", index |-> 0]
        ELSE [status |-> "ok", index |-> (CHOOSE i \in found_at : \A j \in found_at : i <= j) - 1]

RECURSIVE ParameterList_index_from(_, _, _)
ParameterList_index_from(l, item, i) ==
    IF i > Len(l) THEN [status |-> "IndexError", index |-> 0]
    ELSE IF item.t = "str" /\ l[i].smirks = item.v THEN list_index(l, l[i])
    ELSE ParameterList_index_from(l, item, i + 1)

RECURSIVE ParameterList_index_back(_, _, _)
ParameterList_index_back(l, item, i) ==
    IF i < 1 THEN [status |-> "IndexError", index |-> 0]
    ELSE IF item.t = "str" /\ l[i].smirks = item.v THEN [status |-> "ok", index |-> i - 1]
    ELSE ParameterList_index_back(l, item, i - 1)

ParameterList_index_last(l, item) == ParameterList_index_back(l, item, Len(l))

\* ParameterList.index for an item that is not a ParameterType
ParameterList_index(l, item) == ParameterList_index_from(l, item, 1)

\* list.__getitem__ and list.__delitem__ with an int: a negative index
\* counts from the end
list_position(l, index) == IF index >= 0 THEN index + 1 ELSE Len(l) + index + 1

list_getitem(l, index) ==
    IF list_position(l, index) \in 1..Len(l)
    THEN [status |-> "ok", result |-> l[list_position(l, index)]]
    ELSE [status |-> "IndexError", result |-> NoneV]

list_delitem(l, index) ==
    LET pos == list_position(l, index)
    IN  IF pos \in 1..Len(l)
        THEN [status |-> "ok",
              list |-> [i \in 1..(Len(l) - 1) |-> IF i < pos THEN l[i] ELSE l[i + 1]]]
        ELSE [status |-> "IndexError", list |-> l]

\* ParameterList.__getitem__
ParameterList_getitem(l, item) ==
    IF item.t = "int" THEN list_getitem(l, item.v)
    ELSE LET found_at == ParameterList_index(l, item)
         IN  IF found_at.status # "ok" THEN [status |-> found_at.status, result |-> NoneV]
             ELSE list_getitem(l, found_at.index)

\* ParameterList.__delitem__
ParameterList_delitem(l, item) ==
    IF item.t = "int" THEN list_delitem(l, item.v)
    ELSE LET found_at == ParameterList_index(l, item)
         IN  IF found_at.status # "ok" THEN [status |-> found_at.status, list |-> l]
             ELSE list_delitem(l, found_at.index)

InitList ==
    /\ InitIdleEngine
    /\ audit = NoAudit
    /\ attribute = [status |-> ""]
    /\ record = [stage |-> ""]
    /\ parameter_list = <<>>
    /\ listop = [op |-> ""]
    /\ compat = [status |-> ""]
    /\ handler = [stage |-> ""]

ListUnchanged == UNCHANGED <<engineVars, found, audit, attribute, record, compat, handler>>

\* ParameterList.append
ParameterListAppend ==
    \E parameter \in ListRecords :
        /\ Len(parameter_list) < MaxListLen
        /\ parameter_list' = Append(parameter_list, parameter)
        /\ listop' = [op |-> "append", item |-> NoneV, status |-> "ok",
                      result |-> parameter, before |-> parameter_list]
        /\ ListUnchanged

\* ParameterList.extend
ParameterListExtend ==
    \E other \in [cls : {"ParameterList", "list"}, items : {<<p>> : p \in ListRecords}] :
        /\ Len(parameter_list) < MaxListLen
        /\ parameter_list' = IF other.cls = "ParameterList"
                             THEN parameter_list \o other.items ELSE parameter_list
        /\ listop' = [op |-> "extend", item |-> NoneV,
                      status |-> IF other.cls = "ParameterList" THEN "ok" ELSE "TypeError",
                      result |-> other.items[1], before |-> parameter_list]
        /\ ListUnchanged

ParameterListGetItem ==
    \E item \in ListItems :
        LET r == ParameterList_getitem(parameter_list, item)
        IN  /\ listop' = [op |-> "__getitem__", item |-> item, status |-> r.status,
                          result |-> r.result, before |-> parameter_list]
            /\ UNCHANGED parameter_list
            /\ ListUnchanged

ParameterListDelItem ==
    \E item \in ListItems :
        LET r == ParameterList_delitem(parameter_list, item)
        IN  /\ parameter_list' = r.list
            /\ listop' = [op |-> "__delitem__", item |-> item, status |-> r.status,
                          result |-> NoneV, before |-> parameter_list]
            /\ ListUnchanged

NextList ==
    \/ ParameterListAppend
    \/ ParameterListExtend
    \/ ParameterListGetItem
    \/ ParameterListDelItem

SpecList == InitList /\ [][NextList]_vars

-----------------------------------------------------------------------------
(* check_handler_compatibility.  The section-level attributes of the two   *)
(* handlers are records of tagged values: floats, and the numbers of       *)
(* quantities, are counted in millionths.  The outcome is [status, field,  *)
(* this_val, other_val]: status "ok" or the exception raised, and for      *)
(* IncompatibleParameterError the field and the two values its message     *)
(* names.                                                                  *)

\* vdWHandler._SCALETOL, 1e-5
SCALETOL == 10

\* the literal 1.e-6 of the torsion handlers
TorsionTolerance == 1

Compatible == [status |-> "ok", field |-> "", this_val |-> NoneV, other_val |-> NoneV]

Incompatible(attr, this_val, other_val) ==
    [status |-> "IncompatibleParameterError", field |-> attr,
     this_val |-> this_val, other_val |-> other_val]

Failed(exception, attr) ==
    [status |-> exception, field |-> attr, this_val |-> NoneV, other_val |-> NoneV]

AbsDiff(a, b) == IF a >= b THEN a - b ELSE b - a

\* the first outcome of the sequence that is not "ok"
RECURSIVE first_raised(_)
first_raised(outcomes) ==
    IF outcomes = <<>> THEN Compatible
    ELSE IF Head(outcomes).status # "ok" THEN Head(outcomes)
    ELSE first_raised(Tail(outcomes))

\* one turn of a "for string_attr in string_attrs_to_compare" loop
compare_string_attr(this, other, attr) ==
    IF ~PyEq(this[attr], other[attr]) THEN Incompatible(attr, this[attr], other[attr])
    ELSE Compatible

\* one turn of the float loop of vdWHandler
compare_float_attr(this, other, attr) ==
    IF ~(this[attr].t \in {"int", "float"} /\ other[attr].t \in {"int", "float"})
    THEN Failed("TypeError", attr)
    ELSE IF AbsDiff(this[attr].v, other[attr].v) > SCALETOL
    THEN Incompatible(attr, this[attr], other[attr])
    ELSE Compatible

\* one turn of the float loop of the torsion handlers: the subtraction
\* needs two numbers, and the error message reads self._SCALETOL, which no
\* torsion handler has
compare_torsion_float_attr(this, other, attr) ==
    IF ~(this[attr].t \in {"int", "float"} /\ other[attr].t \in {"int", "float"})
    THEN Failed("TypeError", attr)
    ELSE IF AbsDiff(this[attr].v, other[attr].v) > TorsionTolerance
    THEN Failed("AttributeError", attr)
    ELSE Compatible

\* one turn of the unit loop of vdWHandler: the tolerance is _SCALETOL in
\* the unit of this handler's value
compare_unit_attr(this, other, attr) ==
    LET unit_tol == InBaseUnit(Quantity(SCALETOL, this[attr].unit))
    IN  IF AbsDiff(InBaseUnit(this[attr]), InBaseUnit(other[attr])) > unit_tol
        THEN Incompatible(attr, this[attr], other[attr])
        ELSE Compatible

\* ParameterHandler.check_handler_compatibility
ParameterHandler_check_handler_compatibility(this, other) == Compatible

BondHandler_check_handler_compatibility(this, other) ==
    first_raised(<<compare_string_attr(this, other, "potential"),
                   compare_string_attr(this, other, "fractional_bondorder_method"),
                   compare_string_attr(this, other, "fractional_bondorder_interpolation")>>)

AngleHandler_check_handler_compatibility(this, other) ==
    first_raised(<<compare_string_attr(this, other, "potential")>>)

\* ProperTorsionHandler and ImproperTorsionHandler, the same code twice
TorsionHandler_check_handler_compatibility(this, other) ==
    IF PyEq(this.default_idivf, PyStr("auto"))
    THEN first_raised(<<compare_string_attr(this, other, "potential"),
                        compare_string_attr(this, other, "default_idivf")>>)
    ELSE first_raised(<<compare_torsion_float_attr(this, other, "default_idivf"),
                        compare_string_attr(this, other, "potential")>>)

vdWHandler_check_handler_compatibility(this, other) ==
    first_raised(<<compare_float_attr(this, other, "scale12"),
                   compare_float_attr(this, other, "scale13"),
                   compare_float_attr(this, other, "scale14"),
                   compare_float_attr(this, other, "scale15"),
                   compare_string_attr(this, other, "potential"),
                   compare_string_attr(this, other, "combining_rules"),
                   compare_string_attr(this, other, "method"),
                   compare_unit_attr(this, other, "cutoff")>>)

check_handler_compatibility(tag, this, other) ==
    CASE tag = "Bonds" -> BondHandler_check_handler_compatibility(this, other)
      [] tag = "Angles" -> AngleHandler_check_handler_compatibility(this, other)
      [] tag \in {"ProperTorsions", "ImproperTorsions"} ->
            TorsionHandler_check_handler_compatibility(this, other)
      [] tag = "vdW" -> vdWHandler_check_handler_compatibility(this, other)
      [] OTHER -> ParameterHandler_check_handler_compatibility(this, other)

\* the section-level attributes a constructed handler of each class can
\* have: the torsion handlers and vdWHandler validate theirs on construction
HandlerAttributes(tag) ==
    CASE tag = "Bonds" ->
            [potential : {PyStr("harmonic"), PyStr("anharmonic")},
             fractional_bondorder_method : {NoneV, PyStr("Wiberg")},
             fractional_bondorder_interpolation : {PyStr("linear"), PyStr("interpolate-linear")}]
      [] tag = "Angles" -> [potential : {PyStr("harmonic"), PyStr("anharmonic")}]
      [] tag \in {"ProperTorsions", "ImproperTorsions"} ->
            [potential : {PyStr("k*(1+cos(periodicity*theta-phase))")},
             default_idivf : {PyStr("auto"), PyStr("1"), PyFloat(1000000), PyFloat(2000000)}]
      [] tag = "vdW" ->
            [potential : {PyStr("Lennard-Jones-12-6")},
             combining_rules : {PyStr("Lorentz-Berthelot")},
             scale12 : {PyFloat(0)}, scale13 : {PyFloat(0)},
             scale14 : {PyFloat(500000), PyFloat(500005), PyFloat(600000)},
             scale15 : {PyFloat(1000000)},
             method : {PyStr("cutoff"), PyStr("PME")},
             cutoff : {Quantity(9000000, "angstrom"), Quantity(9000050, "angstrom"),
                       Quantity(900000, "nanometer"), Quantity(10000000, "angstrom")}]
      [] OTHER -> [version : {PyStr("0.3")}]

HandlerTags == {"Constraints", "Bonds", "Angles", "ProperTorsions", "ImproperTorsions", "vdW"}

CompatInputs ==
    UNION {{[tag |-> tag, this |-> this, other |-> other, status |-> "", field |-> "",
             this_val |-> NoneV, other_val |-> NoneV] :
               this \in HandlerAttributes(tag), other \in HandlerAttributes(tag)} :
           tag \in HandlerTags}

InitCompat ==
    /\ InitIdleEngine
    /\ audit = NoAudit
    /\ attribute = [status |-> ""]
    /\ record = [stage |-> ""]
    /\ parameter_list = <<>>
    /\ listop = [op |-> ""]
    /\ compat \in CompatInputs
    /\ handler = [stage |-> ""]

CheckHandlerCompatibility ==
    /\ compat.status = ""
    /\ LET r == check_handler_compatibility(compat.tag, compat.this, compat.other)
       IN  compat' = [compat EXCEPT !.status = r.status, !.field = r.field,
                                    !.this_val = r.this_val, !.other_val = r.other_val]
    /\ UNCHANGED <<engineVars, found, audit, attribute, record, parameter_list, listop, handler>>

SpecCompat == InitCompat /\ [][CheckHandlerCompatibility]_vars

-----------------------------------------------------------------------------
(* ParameterHandler.__init__ and the constructors of its subclasses.  The  *)
(* keyword arguments are an insertion-ordered sequence of [key, val]; a    *)
(* constructed handler is [attribs, cosmetic_attribs], attribs holding the *)
(* header attributes stored under '_' + key.                               *)

MIN_SUPPORTED_SECTION_VERSION == PyFloat(300000)
MAX_SUPPORTED_SECTION_VERSION == PyFloat(300000)

\* str(version): a float prints its shortest decimal form
version_str(version) ==
    IF version.t = "str" THEN version.v
    ELSE CASE version.v = 200000 -> "0.2"
           [] version.v = 300000 -> "0.3"
           [] version.v = 400000 -> "0.4"

\* packaging.version.parse: the release numbers of the text
packaging_version_parse(text) ==
    CASE text = "0.2" -> <<0, 2>>
      [] text = "0.3" -> <<0, 3>>
      [] text = "0.3.0" -> <<0, 3, 0>>
      [] text = "0.30" -> <<0, 30>>
      [] text = "0.4" -> <<0, 4>>
      [] text = "1.0" -> <<1, 0>>

\* Version.__lt__: releases compare number by number, a missing number as 0
version_less(a, b) ==
    LET at(s, i) == IF i <= Len(s) THEN s[i] ELSE 0
    IN  \E i \in 1..Max2(Len(a), Len(b)) :
            /\ at(a, i) < at(b, i)
            /\ \A j \in 1..(i - 1) : at(a, j) = at(b, j)

NoVersionRange == [min |-> NoneV, max |-> NoneV]

\* a version check that has no lower limit
check_version_not_newer(version) ==
    IF version_less(packaging_version_parse(version_str(MAX_SUPPORTED_SECTION_VERSION)),
                    packaging_version_parse(version_str(version)))
    THEN [status |-> "SMIRNOFFVersionError",
          message |-> [min |-> MIN_SUPPORTED_SECTION_VERSION,
                       max |-> MAX_SUPPORTED_SECTION_VERSION]]
    ELSE [status |-> "ok", message |-> NoVersionRange]

\* ParameterHandler._check_section_version_compatibility
check_section_version_compatibility(version) ==
    IF \/ version_less(packaging_version_parse(version_str(MAX_SUPPORTED_SECTION_VERSION)),
                       packaging_version_parse(version_str(version)))
       \/ version_less(packaging_version_parse(version_str(version)),
                       packaging_version_parse(version_str(MIN_SUPPORTED_SECTION_VERSION)))
    THEN [status |-> "SMIRNOFFVersionError",
          message |-> [min |-> MIN_SUPPORTED_SECTION_VERSION,
                       max |-> MAX_SUPPORTED_SECTION_VERSION]]
    ELSE [status |-> "ok", message |-> NoVersionRange]

NoHandler == [attribs |-> <<>>, cosmetic_attribs |-> <<>>]

\* _REQUIRED_SPEC_ATTRIBS + _DEFAULT_SPEC_ATTRIBS.keys() + _OPTIONAL_SPEC_ATTRIBS
allowed_header_attribs(tag) ==
    {"version"} \cup DOMAIN DefaultHeader(tag)
        \cup (IF tag = "ImproperTorsions" THEN {"potential", "default_idivf"} ELSE {})
        \cup (IF tag = "Electrostatics" THEN {"cutoff", "switch_width"} ELSE {})

\* "for default_key, default_val in self._DEFAULT_SPEC_ATTRIBS.items()": the
\* defaults not given are added after the given keys
RECURSIVE default_items(_, _, _)
RECURSIVE default_item(_, _, _, _)
default_item(given, defaults, names, default_key) ==
    (IF default_key \in given THEN <<>> ELSE <<Item(default_key, defaults[default_key])>>)
        \o default_items(given, defaults, names \ {default_key})

default_items(given, defaults, names) ==
    IF names = {} THEN <<>>
    ELSE default_item(given, defaults, names, CHOOSE n \in names : TRUE)

with_defaults(smirnoff_data, defaults, names) ==
    smirnoff_data \o default_items(Keys(smirnoff_data), defaults, names)

\* "for key, val in smirnoff_data.items()": header attributes are stored,
\* other keys become cosmetic attributes or end the construction
RECURSIVE handler_set_attributes(_, _, _, _, _)
handler_set_attributes(tag, h, smirnoff_data, allow_cosmetic_attributes, i) ==
    IF i > Len(smirnoff_data) THEN [status |-> "ok", message |-> NoVersionRange, handler |-> h]
    ELSE IF smirnoff_data[i].key \in allowed_header_attribs(tag)
    THEN handler_set_attributes(
             tag, [h EXCEPT !.attribs = SetItem(@, smirnoff_data[i].key, smirnoff_data[i].val)],
             smirnoff_data, allow_cosmetic_attributes, i + 1)
    ELSE IF allow_cosmetic_attributes
    THEN handler_set_attributes(
             tag, [attribs |-> SetItem(h.attribs, smirnoff_data[i].key, smirnoff_data[i].val),
                   cosmetic_attribs |-> Append(h.cosmetic_attribs, smirnoff_data[i].key)],
             smirnoff_data, allow_cosmetic_attributes, i + 1)
    ELSE [status |-> "SMIRNOFFSpecError", message |-> NoVersionRange, handler |-> NoHandler]

\* __init__ once kwargs holds a version, checked is what the version check did
handler_init_checked(tag, kwargs, allow_cosmetic_attributes, checked) ==
    IF checked.status # "ok"
    THEN [status |-> checked.status, message |-> checked.message, handler |-> NoHandler]
    ELSE handler_set_attributes(
             tag, NoHandler,
             with_defaults(kwargs, DefaultHeader(tag), DOMAIN DefaultHeader(tag) \ {"version"}),
             allow_cosmetic_attributes, 1)

\* ParameterHandler.__init__; the inputs carry no key that is cast to float
\* or checked for units
ParameterHandler_init(tag, kwargs, allow_cosmetic_attributes, skip_version_check) ==
    IF "version" \notin Keys(kwargs) /\ ~skip_version_check
    THEN [status |-> "SMIRNOFFSpecError", message |-> NoVersionRange, handler |-> NoHandler]
    ELSE IF "version" \notin Keys(kwargs)
    THEN handler_init_checked(
             tag, SetItem(kwargs, "version", MAX_SUPPORTED_SECTION_VERSION),
             allow_cosmetic_attributes,
             check_section_version_compatibility(MAX_SUPPORTED_SECTION_VERSION))
    ELSE handler_init_checked(tag, kwargs, allow_cosmetic_attributes,
                              check_section_version_compatibility(Lookup(kwargs, "version")))

\* the header attributes as create_force and the validations read them
HeaderOf(h) == [key \in Keys(h.attribs) |-> Lookup(h.attribs, key)]

\* the subclass constructors: super().__init__(**kwargs), then the
\* validation of the torsion, vdW and electrostatics handlers
handler_validated(tag, r) ==
    IF r.status # "ok" THEN r
    ELSE LET valid == CASE tag \in {"ProperTorsions", "ImproperTorsions"} ->
                               torsion_validate_parameters(HeaderOf(r.handler))
                        [] tag = "vdW" -> vdWHandler_validate_parameters(HeaderOf(r.handler))
                        [] tag = "Electrostatics" ->
                               ElectrostaticsHandler_validate_parameters(HeaderOf(r.handler))
                        [] OTHER -> "ok"
         IN  IF valid = "ok" THEN r
             ELSE [status |-> valid, message |-> NoVersionRange, handler |-> NoHandler]

new_handler(tag, kwargs, allow_cosmetic_attributes, skip_version_check) ==
    CHOOSE validated \in
        {handler_validated(tag, r) :
            r \in {ParameterHandler_init(tag, kwargs, allow_cosmetic_attributes,
                                         skip_version_check)}} : TRUE

\* the construction inputs: no version, versions inside and outside the
\* supported range as numbers and as text; nothing else, a cosmetic key, a
\* method, a potential
HandlerVersions ==
    {PyFloat(200000), PyFloat(300000), PyFloat(400000), PyStr("0.3"), PyStr("0.3.0"),
     PyStr("0.30"), PyStr("1.0")}

HandlerKwargs ==
    {version \o extra :
        version \in Optional("version", HandlerVersions),
        extra \in {<<>>, <<Item("author", "alice")>>, <<Item("method", "reaction-field")>>,
                   <<Item("method", "PME")>>, <<Item("potential", "harmonic")>>}}

HandlerInputs ==
    [stage : {""}, tag : HandlerTags \cup {"Electrostatics"}, kwargs : HandlerKwargs,
     allow : BOOLEAN, skip : BOOLEAN, status : {""}, message : {NoVersionRange},
     handler : {NoHandler}]

InitHandler ==
    /\ InitIdleEngine
    /\ audit = NoAudit
    /\ attribute = [status |-> ""]
    /\ record = [stage |-> ""]
    /\ parameter_list = <<>>
    /\ listop = [op |-> ""]
    /\ compat = [status |-> ""]
    /\ handler \in HandlerInputs

\* cls(allow_cosmetic_attributes=..., skip_version_check=..., **kwargs)
ConstructHandler ==
    /\ handler.stage = ""
    /\ \E r \in {new_handler(handler.tag, handler.kwargs, handler.allow, handler.skip)} :
           handler' = [handler EXCEPT !.stage = "constructed", !.status = r.status,
                                      !.message = r.message, !.handler = r.handler]
    /\ UNCHANGED <<engineVars, found, audit, attribute, record, parameter_list, listop, compat>>

SpecHandler == InitHandler /\ [][ConstructHandler]_vars

-----------------------------------------------------------------------------
(* Handlers called on one engine object in any order, a handler more than  *)
(* once: nothing in create_force looks at which handlers ran before.       *)

MaxCalls == 2

Repeatable(tag) == tag \in DOMAIN parameters /\ Len(ran) < MaxCalls

NextRepeat ==
    \/ /\ Repeatable("Constraints")
       /\ Called("Constraints",
                 ConstraintHandler_create_force(system, topology, constrained,
                                                parameters["Constraints"], header["Constraints"]))
    \/ /\ Repeatable("Bonds")
       /\ Called("Bonds",
                 BondHandler_create_force(system, topology, constrained,
                                          parameters["Bonds"], header["Bonds"]))
    \/ /\ Repeatable("Angles")
       /\ Called("Angles",
                 AngleHandler_create_force(system, topology, constrained,
                                           parameters["Angles"], header["Angles"]))
    \/ /\ Repeatable("ProperTorsions")
       /\ Called("ProperTorsions",
                 ProperTorsionHandler_create_force(system, topology, constrained,
                                                   parameters["ProperTorsions"],
                                                   header["ProperTorsions"]))
    \/ /\ Repeatable("ImproperTorsions")
       /\ Called("ImproperTorsions",
                 ImproperTorsionHandler_create_force(system, topology, constrained,
                                                     parameters["ImproperTorsions"],
                                                     header["ImproperTorsions"]))
    \/ /\ Repeatable("vdW")
       /\ Called("vdW",
                 vdWHandler_create_force(system, topology, constrained,
                                         parameters["vdW"], header["vdW"]))
    \/ /\ Repeatable("Electrostatics")
       /\ Called("Electrostatics",
                 ElectrostaticsHandler_create_force(system, topology, constrained,
                                                    parameters["Electrostatics"],
                                                    header["Electrostatics"]))
    \/ Repeatable("ToolkitAM1BCC") /\ ToolkitAM1BCCCalled

SpecRepeat == Init /\ [][NextRepeat]_vars

-----------------------------------------------------------------------------
(* ParameterHandler.__init__ statement by statement as far as the loop     *)
(* over _INDEXED_ATTRIBS: handler.i is the position in _INDEXED_ATTRIBS,   *)
(* handler.allowed the keys appended to allowed_header_attribs,            *)
(* handler.turns the turns of the while loop, counted modulo MaxTurns + 1. *)

MaxTurns == 3

INDEXED_ATTRIBS(tag) ==
    CASE tag = "Bonds" -> <<"k">>
      [] tag \in {"ProperTorsions", "ImproperTorsions"} -> <<"k", "phase", "periodicity", "idivf">>
      [] OTHER -> <<>>

\* the header keys with a numerical suffix
NumberedHeaderKwargs ==
    {<<>>, <<Item("k1", PyStr("1"))>>, <<Item("k1", PyStr("1")), Item("k2", PyStr("2"))>>,
     <<Item("phase1", PyStr("0"))>>, <<Item("k2", PyStr("2"))>>}

StepwiseInputs ==
    [stage : {""}, tag : HandlerTags \cup {"Electrostatics"},
     kwargs : {version \o numbered :
                  version \in Optional("version", {PyFloat(300000), PyStr("0.4")}),
                  numbered \in NumberedHeaderKwargs},
     allow : BOOLEAN, skip : BOOLEAN, status : {""}, message : {NoVersionRange},
     handler : {NoHandler}, i : {1}, turns : {0}, allowed : {{}}]

InitStepwise ==
    /\ InitIdleEngine
    /\ audit = NoAudit
    /\ attribute = [status |-> ""]
    /\ record = [stage |-> ""]
    /\ parameter_list = <<>>
    /\ listop = [op |-> ""]
    /\ compat = [status |-> ""]
    /\ handler \in StepwiseInputs

HandlerUnchanged ==
    UNCHANGED <<engineVars, found, audit, attribute, record, parameter_list, listop, compat>>

\* the version check at the head of __init__
handler_init_version(kwargs, skip_version_check) ==
    IF "version" \in Keys(kwargs)
    THEN check_section_version_compatibility(Lookup(kwargs, "version"))
    ELSE IF skip_version_check
    THEN check_section_version_compatibility(MAX_SUPPORTED_SECTION_VERSION)
    ELSE [status |-> "SMIRNOFFSpecError", message |-> NoVersionRange]

\* from the call to "for attrib_basename in self._INDEXED_ATTRIBS"
EnterInit ==
    /\ handler.stage = ""
    /\ \E r \in {handler_init_version(handler.kwargs, handler.skip)} :
           handler' = [handler EXCEPT
                          !.stage = IF r.status = "ok" THEN "indexed" ELSE "constructed",
                          !.status = IF r.status = "ok" THEN "" ELSE r.status,
                          !.message = r.message]
    /\ HandlerUnchanged

attrib_w_index(tag, i) == INDEXED_ATTRIBS(tag)[i] \o "1"

\* one turn of "while attrib_w_index in kwargs": nothing in the body changes
\* attrib_w_index, index or kwargs
WhileIndexed ==
    /\ handler.stage = "indexed"
    /\ handler.i <= Len(INDEXED_ATTRIBS(handler.tag))
    /\ attrib_w_index(handler.tag, handler.i) \in Keys(handler.kwargs)
    /\ handler' = [handler EXCEPT
                      !.allowed = @ \cup {attrib_w_index(handler.tag, handler.i)},
                      !.turns = (@ + 1) % (MaxTurns + 1)]
    /\ HandlerUnchanged

\* the while condition is false: the next attrib_basename
NextIndexed ==
    /\ handler.stage = "indexed"
    /\ handler.i <= Len(INDEXED_ATTRIBS(handler.tag))
    /\ attrib_w_index(handler.tag, handler.i) \notin Keys(handler.kwargs)
    /\ handler' = [handler EXCEPT !.i = @ + 1]
    /\ HandlerUnchanged

\* the rest of the constructor, from the end of the for loop
LeaveInit ==
    /\ handler.stage = "indexed"
    /\ handler.i > Len(INDEXED_ATTRIBS(handler.tag))
    /\ \E r \in {new_handler(handler.tag, handler.kwargs, handler.allow, handler.skip)} :
           handler' = [handler EXCEPT !.stage = "constructed", !.status = r.status,
                                      !.message = r.message, !.handler = r.handler]
    /\ HandlerUnchanged

NextStepwise == EnterInit \/ WhileIndexed \/ NextIndexed \/ LeaveInit

\* the interpreter runs the next statement of a call that has not returned
SpecStepwise == InitStepwise /\ [][NextStepwise]_vars /\ WF_vars(NextStepwise)

-----------------------------------------------------------------------------
(* The property setters of a constructed vdWHandler.  handler.nsets counts *)
(* the assignments, handler.last is the last one and how it ended.         *)

MaxSets == 2

Stored(h, key, other) ==
    [status |-> "ok", handler |-> [h EXCEPT !.attribs = SetItem(@, key, other)]]

NotStored(h, exception) == [status |-> exception, handler |-> h]

\* "unit_to_check.unit_is_compatible(other.unit)": a value with no unit
\* attribute raises AttributeError
vdWHandler_set_length(h, key, other) ==
    IF other.t # "Quantity" THEN NotStored(h, "AttributeError")
    ELSE IF ~is_compatible("angstrom", other.unit)
    THEN NotStored(h, "IncompatibleParameterError")
    ELSE Stored(h, key, other)

\* vdWHandler.potential, combining_rules, method, cutoff, switch_width
\* setters; the combining_rules setter assigns self._method
vdWHandler_set(h, name, other) ==
    CASE name = "potential" ->
            IF other # "Lennard-Jones-12-6" THEN NotStored(h, "IncompatibleParameterError")
            ELSE Stored(h, "potential", other)
      [] name = "combining_rules" ->
            IF other # "Lorentz-Berthelot" THEN NotStored(h, "IncompatibleParameterError")
            ELSE Stored(h, "method", other)
      [] name = "method" ->
            IF other \notin {"cutoff", "PME"} THEN NotStored(h, "IncompatibleParameterError")
            ELSE Stored(h, "method", other)
      [] name \in {"cutoff", "switch_width"} -> vdWHandler_set_length(h, name, other)

PropertyValues(name) ==
    CASE name = "potential" -> {"Lennard-Jones-12-6", "Buckingham"}
      [] name = "combining_rules" -> {"Lorentz-Berthelot", "geometric"}
      [] name = "method" -> {"cutoff", "PME", "Ewald"}
      [] name \in {"cutoff", "switch_width"} ->
            {Quantity(8, "angstrom"), Quantity(1, "nanometer"),
             Quantity(1, "kilocalorie_per_mole"), PyStr("8 * angstrom")}

PropertyNames == {"potential", "combining_rules", "method", "cutoff", "switch_width"}

NoSet == [name |-> "", other |-> NoneV, status |-> ""]

PropertyInputs ==
    [stage : {""}, tag : {"vdW"}, kwargs : HandlerKwargs, allow : BOOLEAN, skip : BOOLEAN,
     status : {""}, message : {NoVersionRange}, handler : {NoHandler}, nsets : {0},
     last : {NoSet}]

InitProperty ==
    /\ InitIdleEngine
    /\ audit = NoAudit
    /\ attribute = [status |-> ""]
    /\ record = [stage |-> ""]
    /\ parameter_list = <<>>
    /\ listop = [op |-> ""]
    /\ compat = [status |-> ""]
    /\ handler \in PropertyInputs

\* handler.<name> = other
SetProperty ==
    /\ handler.stage = "constructed"
    /\ handler.status = "ok"
    /\ handler.nsets < MaxSets
    /\ \E name \in PropertyNames :
       \E other \in PropertyValues(name) :
       \E r \in {vdWHandler_set(handler.handler, name, other)} :
           handler' = [handler EXCEPT
                          !.handler = r.handler,
                          !.nsets = @ + 1,
                          !.last = [name |-> name, other |-> other, status |-> r.status]]
    /\ HandlerUnchanged

NextProperty == ConstructHandler \/ SetProperty

SpecProperty == InitProperty /\ [][NextProperty]_vars

-----------------------------------------------------------------------------
(* What the properties below speak about *)

\* the canonical forms of the tuples matched by record p
RecordKeys(tag, plist, top, p) ==
    {key_transform(transformed_dict_cls(tag), t) :
        t \in Range(chemical_environment_matches(top, VALENCE_TYPE(tag), plist[p].smirks))}

MatchedKeys(tag, plist, top) == UNION {RecordKeys(tag, plist, top, p) : p \in 1..Len(plist)}

\* the last record, in declaration order, that matched a tuple with this canonical form
LastMatching(tag, plist, top, key) ==
    CHOOSE p \in 1..Len(plist) :
        /\ key \in RecordKeys(tag, plist, top, p)
        /\ \A q \in (p + 1)..Len(plist) : key \notin RecordKeys(tag, plist, top, q)

\* the valence terms a handler hands to its audit
IntrinsicTerms(tag, top) ==
    CASE tag = "Bonds" -> topology_bonds(top)
      [] tag = "Angles" -> topology_angles(top)
      [] tag = "ProperTorsions" -> topology_propers(top)
      [] tag = "ImproperTorsions" -> topology_impropers(top)
      [] tag = "vdW" -> topology_atoms(top)

Uncovered(tag) ==
    {key_transform(transformed_dict_cls(tag), t) : t \in Range(IntrinsicTerms(tag, topology))}
        \ MatchedKeys(tag, parameters[tag], topology)

UnassignedError(tag) ==
    CASE tag = "Bonds" -> "UnassignedBondParameterException"
      [] tag = "Angles" -> "UnassignedAngleParameterException"
      [] tag = "ProperTorsions" -> "UnassignedProperTorsionParameterException"
      [] OTHER -> "UnassignedValenceParameterException"

HandlerClass(tag) ==
    CASE tag = "Bonds" -> "BondHandler"
      [] tag = "Angles" -> "AngleHandler"
      [] tag = "ProperTorsions" -> "ProperTorsionHandler"
      [] tag = "ImproperTorsions" -> "ImproperTorsionHandler"
      [] tag = "vdW" -> "vdWHandler"

UnassignedErrors == {UnassignedError(tag) : tag \in Tags}

AuditedTags == {"Bonds", "Angles", "ProperTorsions", "vdW"}

\* the per-term loop of create_force ran to its end
LoopCompleted == outcome.status \in {"ok"} \cup UnassignedErrors

-----------------------------------------------------------------------------
(* C1 -- find_matches: the keys of the returned mapping are exactly the    *)
(* canonical forms of the tuples matched by any record, and each key maps  *)
(* to a match of the last record, in declaration order, that matched a     *)
(* tuple with that canonical form.                                         *)
C1_LastRecordWins ==
    found.tag # "" =>
        LET tag == found.tag
            plist == parameters[tag]
        IN  /\ Keys(found.matches) = MatchedKeys(tag, plist, topology)
            /\ \A i, j \in 1..Len(found.matches) :
                   i # j => found.matches[i].key # found.matches[j].key
            /\ \A i \in 1..Len(found.matches) :
                   LET e == found.matches[i]
                   IN  /\ e.val.parameter_type = LastMatching(tag, plist, topology, e.key)
                       /\ key_transform(transformed_dict_cls(tag), e.val.environment_match) = e.key
                       /\ e.val.environment_match \in
                              Range(chemical_environment_matches(
                                        topology, VALENCE_TYPE(tag),
                                        plist[e.val.parameter_type].smirks))

\* a specific pattern declared first loses a bond to the generic pattern declared after it
C1_Witness ==
    /\ found.tag = "Bonds"
    /\ Len(parameters["Bonds"]) = 2
    /\ parameters["Bonds"][1].smirks = <<"C", "H">>
    /\ parameters["Bonds"][2].smirks = <<"*", "*">>
    /\ \E i \in 1..Len(found.matches) :
           /\ found.matches[i].key \in RecordKeys("Bonds", parameters["Bonds"], topology, 1)
           /\ found.matches[i].val.parameter_type = 2

-----------------------------------------------------------------------------
-----------------------------------------------------------------------------
AuditValenceKeys ==
    {key_transform(audit.dict_cls, audit.valence_terms[i]) : i \in 1..Len(audit.valence_terms)}

AuditRaised == audit.status \notin {"", "ok"}

AuditReportExact ==
    AuditRaised =>
        /\ audit.status = audit.exception_cls
        /\ audit.report.parameter_handler = audit.handler_cls
        /\ audit.report.unassigned = AuditValenceKeys \ Keys(audit.assigned)
        /\ audit.report.not_found = Keys(audit.assigned) \ AuditValenceKeys

(* C3, as stated -- _check_all_valence_terms_assigned raises if and only   *)
(* if the canonical key set of valence_terms differs from the key set of   *)
(* assigned_terms, also when both have the same number of entries; the one *)
(* exception is of the supplied class, names the handler class and lists   *)
(* all unassigned and all extraneous terms.                                *)
C3_RaisesIffKeySetsDiffer ==
    audit.status # "" =>
        /\ AuditRaised <=> (AuditValenceKeys # Keys(audit.assigned))
        /\ AuditReportExact

(* C3, amended -- it raises if and only if the two collections have        *)
(* different numbers of entries and their canonical key sets differ: with  *)
(* equally many entries it returns without comparing them.  When it        *)
(* raises, the one exception is of the supplied class, names the handler   *)
(* class and lists all unassigned and all extraneous terms.                *)
C3_RaisesIffLengthsAndKeySetsDiffer ==
    audit.status # "" =>
        /\ AuditRaised <=> /\ Len(audit.assigned) # Len(audit.valence_terms)
                           /\ AuditValenceKeys # Keys(audit.assigned)
        /\ AuditReportExact

\* equally many entries, different key sets: the audit returns
C3_Witness ==
    /\ audit.status = "ok"
    /\ Len(audit.assigned) = Len(audit.valence_terms)
    /\ Len(audit.assigned) > 0
    /\ AuditValenceKeys # Keys(audit.assigned)

-----------------------------------------------------------------------------
\* two instances of a class agree on every schema attribute, an unset
\* optional attribute reading as its default
SameSchemaAttributes(cls, x, y) ==
    \A d \in Range(get_parameter_attributes(cls)) : PyEq(getattr(x, d), getattr(y, d))

\* two instances carry the same cosmetic attributes with the same values
SameCosmeticAttributes(x, y) ==
    /\ Range(x.cosmetic_attribs) = Range(y.cosmetic_attribs)
    /\ \A name \in Range(x.cosmetic_attribs) :
           PyEq(Lookup(x.dict, "_" \o name), Lookup(y.dict, "_" \o name))

(* C4, as stated -- for every record x that was constructed, constructing  *)
(* a record of the same class from x.to_dict(), cosmetic attributes        *)
(* permitted, succeeds and gives a record whose schema attributes equal    *)
(* x's and whose cosmetic attributes equal x's; from                       *)
(* x.to_dict(discard_cosmetic_attributes=True) the schema attributes are   *)
(* equal and the result has no cosmetic attribute.                         *)
C4_RoundTrip ==
    record.stage = "reconstructed" =>
        /\ record.copy_status = "ok"
        /\ SameSchemaAttributes(record.cls, record.instance, record.copy)
        /\ IF record.discard THEN record.copy.cosmetic_attribs = <<>>
           ELSE SameCosmeticAttributes(record.instance, record.copy)

-----------------------------------------------------------------------------
BondForceTerms ==
    LET f == existing_force(system, "HarmonicBondForce")
    IN  IF f = 0 THEN <<>> ELSE system.forces[f].terms

EngineConstraints(key) ==
    {i \in 1..Len(system.constraints) :
        {system.constraints[i][1], system.constraints[i][2]} = {key[1], key[2]}}

ConstrainedBondKeys ==
    MatchedKeys("Bonds", parameters["Bonds"], topology)
        \cap MatchedKeys("Constraints", parameters["Constraints"], topology)

(* C5 -- when ConstraintHandler.create_force ran before                    *)
(* BondHandler.create_force and the Bond handler went through all its      *)
(* matches: a matched bonded pair the Constraint handler marked gets no    *)
(* bond term; a deferred mark is resolved to the Bond record's length,     *)
(* written to the constraint state and added as one engine constraint; a   *)
(* concrete distance stays as the Constraint handler wrote it; each such   *)
(* pair ends with exactly one engine constraint and a concrete distance.   *)
C5_ConstraintBeforeBond ==
    (ran = <<"Constraints", "Bonds">> /\ LoopCompleted) =>
        \A key \in ConstrainedBondKeys :
            LET c == parameters["Constraints"][
                         LastMatching("Constraints", parameters["Constraints"], topology, key)]
                b == parameters["Bonds"][LastMatching("Bonds", parameters["Bonds"], topology, key)]
                distance == IF c.distance.t = "None" THEN b.length ELSE c.distance.v
            IN  /\ \A i \in 1..Len(BondForceTerms) :
                       {BondForceTerms[i][1], BondForceTerms[i][2]} # {key[1], key[2]}
                /\ Cardinality(EngineConstraints(key)) = 1
                /\ \A i \in EngineConstraints(key) : system.constraints[i][3] = distance
                /\ constrained[{key[1], key[2]}] = Qty(distance)

\* a deferred mark resolved by the Bond handler, next to a bond that got its term
C5_Witness ==
    /\ ran = <<"Constraints", "Bonds">>
    /\ outcome.status = "ok"
    /\ \E key \in ConstrainedBondKeys :
           /\ parameters["Constraints"][
                  LastMatching("Constraints", parameters["Constraints"], topology, key)
              ].distance.t = "None"
           /\ constrained[{key[1], key[2]}].t = "Quantity"
           /\ Cardinality(EngineConstraints(key)) = 1
    /\ Len(BondForceTerms) > 0

-----------------------------------------------------------------------------
TorsionForceTerms(key) ==
    LET f == existing_force(system, "PeriodicTorsionForce")
        OnKey(term) == <<term[1], term[2], term[3], term[4]>> = key
    IN  IF f = 0 THEN <<>> ELSE SelectSeq(system.forces[f].terms, OnKey)

\* a record with n sub-terms: n periodicities, phases, force constants and divisors
HasSubTerms(torsion, n) ==
    /\ torsion.idivf.t = "list"
    /\ Len(torsion.periodicity) = n /\ Len(torsion.phase) = n
    /\ Len(torsion.k) = n /\ Len(torsion.idivf.items) = n

(* C6 -- for each quartet matched by a proper-torsion record with n        *)
(* sub-terms, ProperTorsionHandler.create_force emits exactly n terms on   *)
(* those four atoms, the i-th with periodicity_i, phase_i and force        *)
(* constant k_i / idivf_i, in index order.                                 *)
C6_OneTermPerIndex ==
    (outcome.op = "ProperTorsions" /\ LoopCompleted) =>
        \A key \in MatchedKeys("ProperTorsions", parameters["ProperTorsions"], topology) :
            LET torsion == parameters["ProperTorsions"][
                    LastMatching("ProperTorsions", parameters["ProperTorsions"], topology, key)]
                n == Len(torsion.k)
                terms == TorsionForceTerms(key)
            IN  HasSubTerms(torsion, n) =>
                    /\ Len(terms) = n
                    /\ \A i \in 1..n :
                           /\ terms[i][5] = torsion.periodicity[i]
                           /\ terms[i][6] = torsion.phase[i]
                           /\ terms[i][7][2] > 0
                           /\ terms[i][7][1] * torsion.idivf.items[i] = torsion.k[i] * terms[i][7][2]

\* k = (1, 2) with idivf = (1, 2): two terms, force constants 1 and 1
C6_Witness ==
    /\ outcome.op = "ProperTorsions"
    /\ outcome.status = "ok"
    /\ \E key \in MatchedKeys("ProperTorsions", parameters["ProperTorsions"], topology) :
           LET torsion == parameters["ProperTorsions"][
                   LastMatching("ProperTorsions", parameters["ProperTorsions"], topology, key)]
               terms == TorsionForceTerms(key)
           IN  /\ torsion.k = <<1, 2>>
               /\ torsion.idivf = List(<<1, 2>>)
               /\ Len(terms) = 2
               /\ terms[1][7] = <<1, 1>>
               /\ terms[2][7] = <<1, 1>>

-----------------------------------------------------------------------------
IndexedNames(cls) == Names(get_indexed_parameter_attributes(cls))

\* the number n of keys base1..basen given without a gap
SuffixCount(kwargs, base) ==
    CHOOSE n \in 0..Len(kwargs) :
        /\ \A i \in 1..n : (base \o ToString(i)) \in Keys(kwargs)
        /\ (base \o ToString(n + 1)) \notin Keys(kwargs)

\* the same keyword arguments with base=[a1, ..., an] in place of
\* base1=a1, ..., basen=an
ListFormOf(kwargs, base) ==
    LET n == SuffixCount(kwargs, base)
    IN  SelectSeq(kwargs, LAMBDA e : e.key \notin {base \o ToString(i) : i \in 1..n})
            \o <<Item(base, List([i \in 1..n |-> Lookup(kwargs, base \o ToString(i))]))>>

(* C7 -- for every indexed attribute base of a record class: a record      *)
(* constructed from base1=a1, ..., basen=an holds under base the sequence  *)
(* that the record constructed from base=[a1, ..., an] and the same other  *)
(* arguments holds, n elements long; with base and base1 both given the    *)
(* construction raises TypeError and there is no record.                   *)
C7_SuffixKeysAsList ==
    record.stage # "" =>
        \A base \in IndexedNames(record.cls) :
            /\ (base \in Keys(record.kwargs) /\ (base \o "1") \in Keys(record.kwargs)) =>
                   /\ record.status = "TypeError"
                   /\ record.instance = NoInstance
            /\ (record.status = "ok" /\ SuffixCount(record.kwargs, base) > 0) =>
                   \E other \in {new_record(record.cls, ListFormOf(record.kwargs, base),
                                            record.allow)} :
                       /\ other.status = "ok"
                       /\ getattr(other.instance, DescriptorOf(record.cls, base))
                              = getattr(record.instance, DescriptorOf(record.cls, base))
                       /\ Len(getattr(record.instance, DescriptorOf(record.cls, base)).items)
                              = SuffixCount(record.kwargs, base)

\* k1 and k2 were given: the record holds the two force constants in index
\* order
C7_Witness ==
    /\ record.stage = "constructed"
    /\ record.status = "ok"
    /\ SuffixCount(record.kwargs, "k") = 2
    /\ Lookup(record.instance.dict, "_k")
           = List(<<Quantity(1, "kilocalorie_per_mole"), Quantity(2, "kilocalorie_per_mole")>>)

-----------------------------------------------------------------------------
\* the unit a value carries: that of a Quantity, that written in a textual
\* expression, none for None, a number or a text without a unit
CarriedUnit(value) ==
    CASE value.t = "Quantity" -> value.unit
      [] value.t = "str" /\ value.v \in {"1 * angstrom", "2 * angstrom"} -> "angstrom"
      [] value.t = "str" /\ value.v = "1 * nanometer" -> "nanometer"
      [] value.t = "str" /\ value.v \in {"1 * kilocalorie_per_mole", "2 * kilocalorie_per_mole"} ->
            "kilocalorie_per_mole"
      [] OTHER -> ""

\* the number written in a value
CarriedNumber(value) ==
    CASE value.t = "str" /\ value.v \in {"1 * angstrom", "1 * nanometer", "1 * kilocalorie_per_mole"} -> 1
      [] value.t = "str" -> 2
      [] OTHER -> value.v

SameDimension(u1, u2) ==
    \/ {u1, u2} \subseteq {"angstrom", "nanometer"}
    \/ u1 = u2 /\ u1 # ""

EqualsDefault(a) ==
    \/ a.descriptor.default.t = "None" /\ a.value.t = "None"
    \/ /\ a.descriptor.default.t = "Quantity"
       /\ a.value \in {Quantity(1, "nanometer"), Quantity(10, "angstrom")}

\* what assigning the Quantity q itself does under the converter declared
AssignedQuantity(converter, q) ==
    CASE converter = "" -> [status |-> "ok", stored |-> q]
      [] converter = "float" -> [status |-> "TypeError", stored |-> UNDEFINED]
      [] OTHER -> [status |-> "ok",
                   stored |-> Quantity(IF q.unit = "nanometer" THEN 10 * q.v ELSE q.v, "angstrom")]

(* C8 -- for an attribute with a declared unit: a value equal to the       *)
(* declared default is stored as it is, with no unit check and no converter*)
(* call; any other value whose unit is incompatible, or that carries no    *)
(* unit, is rejected with IncompatibleUnitError naming the attribute, the  *)
(* value and the expected unit before the custom converter is called; a    *)
(* textual expression in a compatible unit ends as assigning the quantity  *)
(* it denotes ends, with an equal stored value.                            *)
C8_UnitCheckBeforeConverter ==
    (attribute.status # "" /\ attribute.descriptor.unit # "") =>
        IF EqualsDefault(attribute)
        THEN /\ attribute.status = "ok"
             /\ attribute.stored = attribute.value
             /\ attribute.calls = <<>>
        ELSE IF ~SameDimension(CarriedUnit(attribute.value), attribute.descriptor.unit)
        THEN /\ attribute.status = "IncompatibleUnitError"
             /\ attribute.stored = UNDEFINED
             /\ attribute.calls = <<>>
             /\ attribute.message.attribute = attribute.descriptor.name
             /\ attribute.message.unit = attribute.descriptor.unit
             /\ attribute.message.value.t # "None"
             /\ attribute.message.value.v = CarriedNumber(attribute.value)
             /\ attribute.value.t = "Quantity" => attribute.message.value = attribute.value
        ELSE LET q == Quantity(CarriedNumber(attribute.value), CarriedUnit(attribute.value))
                 expected == AssignedQuantity(attribute.descriptor.converter, q)
             IN  /\ attribute.status = expected.status
                 /\ attribute.stored.t = expected.stored.t
                 /\ attribute.stored.t = "Quantity" =>
                        /\ attribute.stored.unit = expected.stored.unit
                        /\ attribute.stored.v = expected.stored.v
                 /\ \A i \in 1..Len(attribute.calls) : attribute.calls[i].value = q

\* a quantity of energy assigned to a length attribute that has a converter
C8_Witness ==
    /\ attribute.status = "IncompatibleUnitError"
    /\ attribute.descriptor.unit = "angstrom"
    /\ attribute.descriptor.converter = "to_angstrom"
    /\ attribute.value = Quantity(1, "kilocalorie_per_mole")
    /\ attribute.calls = <<>>

-----------------------------------------------------------------------------
\* the compared fields of a class on which two handlers differ: string
\* fields that are not identical, numbers further apart than the tolerance,
\* a number against a text
DifferingFields(c) ==
    {f \in DOMAIN c.this :
        LET a == c.this[f]
            b == c.other[f]
        IN  /\ c.tag # "Constraints"
            /\ f # "switch_width"
            /\ IF a.t = "float" /\ b.t = "float"
               THEN (a.v - b.v > SCALETOL) \/ (b.v - a.v > SCALETOL)
               ELSE IF a.t = "Quantity" /\ b.t = "Quantity"
               THEN LET tol == IF a.unit = "nanometer" THEN 10 * SCALETOL ELSE SCALETOL
                        x == IF a.unit = "nanometer" THEN 10 * a.v ELSE a.v
                        y == IF b.unit = "nanometer" THEN 10 * b.v ELSE b.v
                    IN  (x - y > tol) \/ (y - x > tol)
               ELSE IF a.t = "str" /\ b.t = "str" THEN a.v # b.v
               ELSE a.t # b.t}

(* C9 -- a.check_handler_compatibility(b) raises                           *)
(* IncompatibleParameterError naming a differing field and both its values *)
(* whenever a compared string field differs or a compared numeric or unit  *)
(* field differs by more than the tolerance, and returns without error     *)
(* otherwise; this includes torsion handlers whose default_idivf are two   *)
(* different numbers, or a number and 'auto' in either order.              *)
C9_IncompatibleIffFieldsDiffer ==
    compat.status # "" =>
        IF DifferingFields(compat) = {}
        THEN compat.status = "ok"
        ELSE /\ compat.status = "IncompatibleParameterError"
             /\ compat.field \in DifferingFields(compat)
             /\ compat.this_val = compat.this[compat.field]
             /\ compat.other_val = compat.other[compat.field]

-----------------------------------------------------------------------------
\* the position, counted from 1, an item denotes in a list: for a string
\* the first record in list order with that smirks, for an integer that
\* position; 0 when there is none
DenotedPosition(l, item) ==
    IF item.t = "str"
    THEN IF \E i \in 1..Len(l) : l[i].smirks = item.v
         THEN CHOOSE i \in 1..Len(l) :
                  /\ l[i].smirks = item.v
                  /\ \A j \in 1..(i - 1) : l[j].smirks # item.v
         ELSE 0
    ELSE IF item.v >= 0 /\ item.v < Len(l) THEN item.v + 1
    ELSE IF item.v < 0 /\ Len(l) + item.v >= 0 THEN Len(l) + item.v + 1
    ELSE 0

RemoveAt(l, pos) == SubSeq(l, 1, pos - 1) \o SubSeq(l, pos + 1, Len(l))

-----------------------------------------------------------------------------
\* vdWHandler.create_force, then ElectrostaticsHandler.create_force
NonbondedResolved == ran = <<"vdW", "Electrostatics">>

\* the method of the shared NonbondedForce
NonbondedMethod == system.forces[existing_force(system, "NonbondedForce")].settings.method

\* the method a supported combination resolves to
ResolvedMethod(vdw_method, topology_periodic) ==
    IF ~topology_periodic THEN "NoCutoff"
    ELSE IF vdw_method = "PME" THEN "LJPME"
    ELSE "PME"

(* C11 as stated -- after the vdW handler and then the electrostatics      *)
(* handler ran, a non-periodic topology gives NoCutoff whatever the        *)
(* methods; a periodic one gives LJ-PME for vdW PME with electrostatics    *)
(* PME, PME for vdW cutoff with electrostatics PME, and                    *)
(* IncompatibleParameterError for every other combination.                 *)
C11_MethodResolution ==
    NonbondedResolved =>
        IF topology.box_vectors.t = "None"
        THEN outcome.status = "ok" /\ NonbondedMethod = "NoCutoff"
        ELSE IF header["Electrostatics"].method = "PME"
        THEN /\ outcome.status = "ok"
             /\ NonbondedMethod = ResolvedMethod(header["vdW"].method, TRUE)
        ELSE outcome.status = "IncompatibleParameterError"

(* C11 -- after the vdW handler and then the electrostatics handler ran:   *)
(* electrostatics method reaction-field raises IncompatibleParameterError  *)
(* on every topology; otherwise a non-periodic topology gives NoCutoff, a  *)
(* periodic one with electrostatics PME gives LJ-PME for vdW PME and PME   *)
(* for vdW cutoff, and a periodic one with Coulomb raises                  *)
(* IncompatibleParameterError.  A refused combination leaves the method    *)
(* the vdW handler chose.                                                  *)
C11_MethodResolutionSupported ==
    NonbondedResolved =>
        IF header["Electrostatics"].method = "reaction-field"
           \/ (topology.box_vectors.t # "None" /\ header["Electrostatics"].method # "PME")
        THEN /\ outcome.status = "IncompatibleParameterError"
             /\ NonbondedMethod
                    = vdWHandler_settings(header["vdW"], topology).method
        ELSE /\ outcome.status = "ok"
             /\ NonbondedMethod
                    = ResolvedMethod(header["vdW"].method, topology.box_vectors.t # "None")

\* a periodic topology, both methods PME: the force stays LJ-PME
C11_Witness ==
    /\ NonbondedResolved
    /\ topology.box_vectors.t # "None"
    /\ header["vdW"].method = "PME"
    /\ header["Electrostatics"].method = "PME"
    /\ outcome.status = "ok"
    /\ NonbondedMethod = "LJPME"

-----------------------------------------------------------------------------
\* the terms of the torsion force around central atom c on the atoms of key,
\* in the order they were added
TrefoilForceTerms(sys, key) ==
    LET f == existing_force(sys, "PeriodicTorsionForce")
        OnKey(term) == /\ term[1] = key[2]
                       /\ {term[2], term[3], term[4]} = {key[1], key[3], key[4]}
    IN  IF f = 0 THEN <<>> ELSE SelectSeq(sys.forces[f].terms, OnKey)

\* (c,a,b,d), (c,b,d,a), (c,d,a,b) for the key (a,c,b,d)
TrefoilOrders(key) ==
    << <<key[2], key[1], key[3], key[4]>>,
       <<key[2], key[3], key[4], key[1]>>,
       <<key[2], key[4], key[1], key[3]>> >>

\* the divisor of sub-term i: 3 when the record declares none
TrefoilDivisor(improper, i) ==
    IF improper.idivf.t = "None" THEN 3 ELSE improper.idivf.items[i]

\* a record with n sub-terms, its divisors none or n
HasTrefoilSubTerms(improper, n) ==
    /\ Len(improper.periodicity) = n /\ Len(improper.phase) = n /\ Len(improper.k) = n
    /\ improper.idivf.t = "list" => Len(improper.idivf.items) = n

(* C12 -- ImproperTorsionHandler.create_force, for every matched improper  *)
(* key (a,c,b,d) with central atom c whose record has n sub-terms, emits   *)
(* exactly 3*n terms: for each sub-term i, in index order, the three atom  *)
(* orders (c,a,b,d), (c,b,d,a), (c,d,a,b), each with periodicity_i,        *)
(* phase_i and force constant k_i / idivf_i, the divisor being 3 when the  *)
(* record declares none.                                                   *)
C12_TrefoilExpansion ==
    [][(ran' # ran /\ outcome'.op = "ImproperTorsions" /\ outcome'.status = "ok") =>
        \A key \in MatchedKeys("ImproperTorsions", parameters["ImproperTorsions"], topology) :
            LET improper == parameters["ImproperTorsions"][
                    LastMatching("ImproperTorsions", parameters["ImproperTorsions"],
                                 topology, key)]
                n == Len(improper.k)
                terms == TrefoilForceTerms(system', key)
            IN  HasTrefoilSubTerms(improper, n) =>
                    /\ Len(terms) = 3 * n
                    /\ \A i \in 1..n, j \in 1..3 :
                           LET term == terms[3 * (i - 1) + j]
                           IN  /\ <<term[1], term[2], term[3], term[4]>> = TrefoilOrders(key)[j]
                               /\ term[5] = improper.periodicity[i]
                               /\ term[6] = improper.phase[i]
                               /\ term[7][2] > 0
                               /\ term[7][1] * TrefoilDivisor(improper, i)
                                      = improper.k[i] * term[7][2]
      ]_vars

\* the star has one improper around atom 1; a record with k = 3 and no
\* divisor gave three terms with force constant 1, and one with two sub-terms
\* gave six
C12_Witness ==
    /\ outcome.op = "ImproperTorsions"
    /\ outcome.status = "ok"
    /\ topology = Star
    /\ Len(parameters["ImproperTorsions"]) = 2
    /\ parameters["ImproperTorsions"][2].idivf = List(<<3>>)
    /\ parameters["ImproperTorsions"][2].k = <<3>>
    /\ Len(TrefoilForceTerms(system, <<0, 1, 2, 3>>)) = 3
    /\ \A j \in 1..3 : TrefoilForceTerms(system, <<0, 1, 2, 3>>)[j][7] = <<1, 1>>
    /\ TrefoilForceTerms(system, <<0, 1, 2, 3>>)[2][2] = 2
    /\ TrefoilForceTerms(system, <<0, 1, 2, 3>>)[2][4] = 0

-----------------------------------------------------------------------------
\* the matched bonds whose reference bond carries a fractional bond order
FractionalBondKeys ==
    {key \in MatchedKeys("Bonds", parameters["Bonds"], topology) :
        get_bond_between(topology, key[1], key[2]).fractional_bond_order.t # "None"}

(* C13 -- when a matched bond carries a fractional bond order and the Bond *)
(* handler's fractional_bondorder_interpolation is 'linear', the default,  *)
(* BondHandler.create_force goes through its loop and emits for that bond  *)
(* a bond term or a constraint (with k and length interpolated as          *)
(* v0 + (v1 - v0) * (order - 1)).                                          *)
C13_LinearInterpolation ==
    (outcome.op = "Bonds" /\ header["Bonds"].fractional_bondorder_interpolation = "linear") =>
        \A key \in FractionalBondKeys :
            /\ LoopCompleted
            /\ \/ \E i \in 1..Len(BondForceTerms) :
                      {BondForceTerms[i][1], BondForceTerms[i][2]} = {key[1], key[2]}
               \/ EngineConstraints(key) # {}

-----------------------------------------------------------------------------
AngleForceTerms ==
    LET f == existing_force(system, "HarmonicAngleForce")
    IN  IF f = 0 THEN <<>> ELSE system.forces[f].terms

AngleTermsOn(key) ==
    {i \in 1..Len(AngleForceTerms) :
        <<AngleForceTerms[i][1], AngleForceTerms[i][2], AngleForceTerms[i][3]>> = key}

\* the pairs of the triple that the constraint state marks
ConstrainedPairs(key) ==
    {pair \in {{key[1], key[2]}, {key[2], key[3]}, {key[1], key[3]}} :
        \E i, j \in pair : i # j /\ Truthy(is_constrained(constrained, i, j))}

FullyConstrainedAngleKeys ==
    {key \in MatchedKeys("Angles", parameters["Angles"], topology) :
        Cardinality(ConstrainedPairs(key)) = 3}

(* C14 -- when AngleHandler.create_force went through all its matches, a   *)
(* matched triple (i, j, k) has no angle term if all three pairs (i,j),    *)
(* (j,k), (i,k) are marked constrained and exactly one term otherwise,     *)
(* also with one or two constrained pairs; the force holds as many terms   *)
(* as there are matches that are not fully constrained.                    *)
C14_SkipsOnlyFullyConstrained ==
    (outcome.op = "Angles" /\ LoopCompleted) =>
        /\ \A key \in MatchedKeys("Angles", parameters["Angles"], topology) :
               Cardinality(AngleTermsOn(key))
                   = IF key \in FullyConstrainedAngleKeys THEN 0 ELSE 1
        /\ Len(AngleForceTerms)
               = Cardinality(MatchedKeys("Angles", parameters["Angles"], topology))
                     - Cardinality(FullyConstrainedAngleKeys)

\* the ring with every bond constrained: three matched angles, no term
C14_Witness ==
    /\ ran = <<"Constraints", "Angles">>
    /\ outcome.status = "ok"
    /\ Cardinality(MatchedKeys("Angles", parameters["Angles"], topology)) = 3
    /\ Cardinality(FullyConstrainedAngleKeys) = 3
    /\ AngleForceTerms = <<>>

-----------------------------------------------------------------------------
\* the version texts that denote a version within [0.3, 0.3]
SupportedVersionTexts == {"0.3", "0.3.0"}

VersionRange ==
    [min |-> MIN_SUPPORTED_SECTION_VERSION, max |-> MAX_SUPPORTED_SECTION_VERSION]

-----------------------------------------------------------------------------
\* base and base1 both given, or numbered keys of two indexed attributes
\* that stop at different indices
FoldingFails(cls, kwargs) ==
    \/ \E base \in IndexedNames(cls) :
           base \in Keys(kwargs) /\ (base \o "1") \in Keys(kwargs)
    \/ \E a \in IndexedNames(cls), b \in IndexedNames(cls) :
           /\ SuffixCount(kwargs, a) > 0
           /\ SuffixCount(kwargs, b) > 0
           /\ SuffixCount(kwargs, a) # SuffixCount(kwargs, b)

\* the keys left once base1..basen were folded into base
FoldedKeys(cls, kwargs) ==
    {key \in Keys(kwargs) :
        \A base \in IndexedNames(cls) :
            key \notin {base \o ToString(i) : i \in 1..SuffixCount(kwargs, base)}}
        \cup {base \in IndexedNames(cls) : SuffixCount(kwargs, base) > 0}

FoldedValue(cls, kwargs, key) ==
    IF key \in IndexedNames(cls) /\ SuffixCount(kwargs, key) > 0
    THEN List([i \in 1..SuffixCount(kwargs, key) |-> Lookup(kwargs, key \o ToString(i))])
    ELSE Lookup(kwargs, key)

RequiredNames(cls) == Names(get_required_parameter_attributes(cls))

DeclaredNames(cls) == Names(get_parameter_attributes(cls))

\* the setter accepts the value given under every declared key
SettersAccept(cls, kwargs) ==
    \A key \in FoldedKeys(cls, kwargs) \cap DeclaredNames(cls) :
        setattr(NoInstance, DescriptorOf(cls, key), FoldedValue(cls, kwargs, key)).status = "ok"

\* a constructed record: required attributes set, declared keys hold what
\* their setter stores, the other keys are cosmetic attributes, verbatim
KeysAssigned(cls, kwargs, allow_cosmetic_attributes, instance) ==
    /\ \A name \in RequiredNames(cls) : ("_" \o name) \in Keys(instance.dict)
    /\ \A key \in FoldedKeys(cls, kwargs) \cap DeclaredNames(cls) :
           \E r \in {setattr(NoInstance, DescriptorOf(cls, key), FoldedValue(cls, kwargs, key))} :
               /\ r.status = "ok"
               /\ getattr(instance, DescriptorOf(cls, key))
                      = getattr(r.instance, DescriptorOf(cls, key))
    /\ \A key \in FoldedKeys(cls, kwargs) \ DeclaredNames(cls) :
           /\ allow_cosmetic_attributes
           /\ key \in Range(instance.cosmetic_attribs)
           /\ Lookup(instance.dict, "_" \o key) = Lookup(kwargs, key)
    /\ Range(instance.cosmetic_attribs) = FoldedKeys(cls, kwargs) \ DeclaredNames(cls)

\* a key that is not declared, cosmetic attributes not permitted, nothing
\* else wrong with the arguments
UnexpectedKey(cls, kwargs, allow_cosmetic_attributes) ==
    /\ RequiredNames(cls) \subseteq FoldedKeys(cls, kwargs)
    /\ FoldedKeys(cls, kwargs) \ DeclaredNames(cls) # {}
    /\ ~allow_cosmetic_attributes
    /\ SettersAccept(cls, kwargs)

(* C16, as stated -- when the indexed keys fold: construction raises       *)
(* SMIRNOFFSpecError if a required attribute is absent from the folded     *)
(* keys; a constructed record has every required attribute set, holds      *)
(* under each declared key what the setter stores for the value given,     *)
(* and holds every other key verbatim as a cosmetic attribute, which       *)
(* needs allow_cosmetic_attributes; an undeclared key without              *)
(* allow_cosmetic_attributes raises SMIRNOFFSpecError.                     *)
C16_KeysValidated ==
    (record.stage # "" /\ ~FoldingFails(record.cls, record.kwargs)) =>
        /\ RequiredNames(record.cls) \ FoldedKeys(record.cls, record.kwargs) # {} =>
               record.status = "SMIRNOFFSpecError"
        /\ record.status = "ok" =>
               KeysAssigned(record.cls, record.kwargs, record.allow, record.instance)
        /\ UnexpectedKey(record.cls, record.kwargs, record.allow) =>
               record.status = "SMIRNOFFSpecError"

\* vdWType.__init__ refuses before any key is looked at
vdWPairRefused(cls, kwargs) ==
    /\ cls = "vdWType"
    /\ ("sigma" \in Keys(kwargs) /\ Lookup(kwargs, "sigma").t # "None")
           = ("rmin_half" \in Keys(kwargs) /\ Lookup(kwargs, "rmin_half").t # "None")

(* C16, amended -- the same, except that smirks is a positional argument   *)
(* of ParameterType.__init__: without smirks the call raises TypeError,    *)
(* unless the record is a vdWType without exactly one of sigma and         *)
(* rmin_half, which raises SMIRNOFFSpecError first.                        *)
C16_KeysValidatedSmirksPositional ==
    (record.stage # "" /\ ~FoldingFails(record.cls, record.kwargs)) =>
        /\ RequiredNames(record.cls) \ FoldedKeys(record.cls, record.kwargs) # {} =>
               record.status =
                   IF vdWPairRefused(record.cls, record.kwargs) THEN "SMIRNOFFSpecError"
                   ELSE IF "smirks" \notin Keys(record.kwargs) THEN "TypeError"
                   ELSE "SMIRNOFFSpecError"
        /\ record.status = "ok" =>
               KeysAssigned(record.cls, record.kwargs, record.allow, record.instance)
        /\ UnexpectedKey(record.cls, record.kwargs, record.allow) =>
               record.status = "SMIRNOFFSpecError"

\* a torsion record from numbered keys and a key that is not declared,
\* kept as a cosmetic attribute
C16_Witness ==
    /\ record.stage = "constructed"
    /\ record.status = "ok"
    /\ record.allow
    /\ SuffixCount(record.kwargs, "k") = 2
    /\ "pilot" \in FoldedKeys(record.cls, record.kwargs)
    /\ record.instance.cosmetic_attribs = <<"pilot">>
    /\ Lookup(record.instance.dict, "_pilot") = PyStr("alice")

-----------------------------------------------------------------------------
\* the keys one attribute is written under: an indexed attribute of length n
\* as base1..basen, any other attribute under its name
AttributeKeys(instance, d) ==
    IF d.indexed
    THEN {d.name \o ToString(i) : i \in 1..Len(getattr(instance, d).items)}
    ELSE {d.name}

CosmeticKeys(instance, discard_cosmetic_attributes) ==
    IF discard_cosmetic_attributes THEN {} ELSE Range(instance.cosmetic_attribs)

KeyPosition(d, key) == CHOOSE i \in 1..Len(d) : d[i].key = key

\* base1..basen come in ascending order
IndexedKeysAscending(cls, instance, smirnoff_dict) ==
    \A d \in Range(get_indexed_parameter_attributes(cls)) :
        \A i \in 1..Len(smirnoff_dict), j \in 1..Len(smirnoff_dict) :
            ({d.name \o ToString(i), d.name \o ToString(j)} \subseteq Keys(smirnoff_dict) /\ i < j) =>
                KeyPosition(smirnoff_dict, d.name \o ToString(i))
                    < KeyPosition(smirnoff_dict, d.name \o ToString(j))

\* the optional attributes whose value is not equal to their default
DiffersFromDefault(cls, instance) ==
    {d \in Range(get_optional_parameter_attributes(cls)) : ~PyEq(getattr(instance, d), d.default)}

\* the optional attributes except those with default None that are None
NotNoneDefault(cls, instance) ==
    {d \in Range(get_optional_parameter_attributes(cls)) :
        d.default.t # "None" \/ getattr(instance, d).t # "None"}

ToDictKeys(cls, instance, optional, discard_cosmetic_attributes) ==
    UNION {AttributeKeys(instance, d) :
              d \in Range(get_required_parameter_attributes(cls)) \cup optional}
        \cup CosmeticKeys(instance, discard_cosmetic_attributes)

-----------------------------------------------------------------------------
NumberedKeys(kwargs, base) ==
    {i \in 1..(MaxIndexed + 2) : (base \o ToString(i)) \in Keys(kwargs)}

\* numbered keys of base that do not start at 1 or leave a gap
SuffixGap(kwargs, base) ==
    \E i \in NumberedKeys(kwargs, base) : i > SuffixCount(kwargs, base)

(* C18 -- constructing a record from numbered keys of an indexed attribute *)
(* that do not start at 1 or are not contiguous raises, whether cosmetic   *)
(* attributes are permitted or not, and no record is created.              *)
C18_SuffixGapFails ==
    (record.stage # "" /\ \E base \in IndexedNames(record.cls) : SuffixGap(record.kwargs, base)) =>
        /\ record.status # "ok"
        /\ record.instance = NoInstance

-----------------------------------------------------------------------------
\* the arguments a converter declares: a function takes the value, a method
\* the instance, the attribute and the value
DeclaredSignature(converter) ==
    IF converter \in StaticConverters THEN StaticCall(NoneV).args ELSE InstanceCall(NoneV).args

(* C19 -- when an assignment reaches the custom converter, the call that   *)
(* ends the assignment is the call with the arguments the converter        *)
(* declares: what the converter returns is stored, and what the converter  *)
(* raises, TypeError included, is the exception of the assignment, the     *)
(* attribute keeping its previous value.                                   *)
C19_ConverterDispatch ==
    (attribute.status # "" /\ attribute.calls # <<>>) =>
        \E last \in {attribute.calls[Len(attribute.calls)]} :
            \E r \in {converter_result(attribute.descriptor.converter, last.value)} :
                /\ last.args = DeclaredSignature(attribute.descriptor.converter)
                /\ attribute.status = r.status
                /\ attribute.stored = IF r.status = "ok" THEN r.value ELSE UNDEFINED

-----------------------------------------------------------------------------
\* the exceptions that say a feature is not implemented or not supported:
\* NotImplementedError for the divisor, Exception("... is not implemented")
\* for the interpolation, IncompatibleParameterError for reaction-field
UnimplementedErrors == {"NotImplementedError", "Exception", "IncompatibleParameterError"}

\* the quartets matched by a record that has no divisor
UnresolvedDivisorKeys ==
    {key \in MatchedKeys("ProperTorsions", parameters["ProperTorsions"], topology) :
        parameters["ProperTorsions"][
            LastMatching("ProperTorsions", parameters["ProperTorsions"], topology, key)
        ].idivf.t = "None"}

(* C20 -- ProperTorsionHandler.create_force with a matched record whose    *)
(* divisor is unresolved, BondHandler.create_force with a matched bond     *)
(* that carries a fractional bond order under an interpolation other than  *)
(* 'linear', and ElectrostaticsHandler.create_force with method            *)
(* 'reaction-field' each end in an exception that says the feature is not  *)
(* implemented or not supported, and the affected quartet or bond gets no  *)
(* term.                                                                   *)
C20_UnimplementedIsExplicit ==
    /\ (outcome.op = "ProperTorsions" /\ UnresolvedDivisorKeys # {}) =>
           /\ outcome.status \in UnimplementedErrors
           /\ \A key \in UnresolvedDivisorKeys : TorsionForceTerms(key) = <<>>
    /\ (outcome.op = "Bonds" /\ FractionalBondKeys # {}
           /\ header["Bonds"].fractional_bondorder_interpolation # "linear") =>
           /\ outcome.status \in UnimplementedErrors
           /\ \A key \in FractionalBondKeys :
                  \A i \in 1..Len(BondForceTerms) :
                      {BondForceTerms[i][1], BondForceTerms[i][2]} # {key[1], key[2]}
    /\ (outcome.op = "Electrostatics" /\ header["Electrostatics"].method = "reaction-field"
           /\ "vdW" \in Range(ran)) =>
           outcome.status \in UnimplementedErrors

-----------------------------------------------------------------------------
ForcesOfKind(kind) == {i \in 1..Len(system.forces) : system.forces[i].kind = kind}

ForceKinds ==
    {"HarmonicBondForce", "HarmonicAngleForce", "PeriodicTorsionForce", "NonbondedForce"}

(* C21 -- after any sequence of create_force calls on one engine object,   *)
(* a handler called twice included, the engine object holds at most one    *)
(* force of each kind.                                                     *)
C21_OneForcePerKind ==
    \A kind \in ForceKinds : Cardinality(ForcesOfKind(kind)) <= 1

-----------------------------------------------------------------------------
NonbondedParticles(sys) ==
    IF existing_force(sys, "NonbondedForce") = 0 THEN <<>>
    ELSE sys.forces[existing_force(sys, "NonbondedForce")].terms

\* the charge the first pass is to give to the particle of reference atom
\* ref_idx: that of the atom mapped to it in the first isomorphic molecule
\* supplied, if there is one, else the computed one
SuppliedCharge(kwargs, computed, ref_idx) ==
    IF "charge_from_molecules" \in DOMAIN kwargs
          /\ \E m \in 1..Len(kwargs["charge_from_molecules"]) :
                 kwargs["charge_from_molecules"][m].is_isomorphic
    THEN LET mol == kwargs["charge_from_molecules"][
                        CHOOSE m \in 1..Len(kwargs["charge_from_molecules"]) :
                            /\ kwargs["charge_from_molecules"][m].is_isomorphic
                            /\ \A l \in 1..(m - 1) :
                                   ~kwargs["charge_from_molecules"][l].is_isomorphic]
         IN  CHOOSE q \in Range(mol.partial_charges) :
                 \E c \in DOMAIN mol.partial_charges :
                     mol.topology_atom_map[c] = ref_idx /\ mol.partial_charges[c] = q
    ELSE computed[ref_idx]

RECURSIVE TotalCharge(_, _)
TotalCharge(particles, i) ==
    IF i > Len(particles) THEN 0 ELSE particles[i].charge + TotalCharge(particles, i + 1)

SameSizeParameters(before, after) ==
    /\ Len(after) = Len(before)
    /\ \A i \in 1..Len(before) :
           /\ after[i].sigma = before[i].sigma
           /\ after[i].epsilon = before[i].epsilon

OtherForcesUnchanged(before, after) ==
    /\ Len(after.forces) = Len(before.forces)
    /\ \A i \in 1..Len(before.forces) :
           i # existing_force(before, "NonbondedForce") => after.forces[i] = before.forces[i]

-----------------------------------------------------------------------------
(* Records under assignment and cosmetic changes.                          *)

RecordAlive == record.stage \in {"constructed", "serialized"} /\ record.status = "ok"

\* the lengths of the indexed attributes that hold a sequence
IndexedLengths(cls, instance) ==
    {Len(getattr(instance, d).items) :
        d \in {e \in Range(get_indexed_parameter_attributes(cls)) :
                  getattr(instance, e).t = "list"}}

\* C23: in every state reached by constructing a torsion record, from
\* numbered keys or from sequences, and assigning to its attributes, the
\* periodicity, phase and k sequences, and idivf when it is set, have one
\* length: what would make them differ is rejected.
C23_ParallelSequences ==
    (RecordAlive /\ record.cls = "ProperTorsionType")
        => Cardinality(IndexedLengths(record.cls, record.instance)) <= 1

\* C29: in every state reached by constructing a vdW record and assigning to
\* its attributes, exactly one of sigma and rmin_half is set and the other
\* is None.
C29_OneSizeParameter ==
    (RecordAlive /\ record.cls = "vdWType")
        => (getattr(record.instance, DescriptorOf("vdWType", "sigma")).t = "None")
               # (getattr(record.instance, DescriptorOf("vdWType", "rmin_half")).t = "None")

\* what the instance holds under each schema attribute
SchemaValues(cls, instance) ==
    [name \in Names(get_parameter_attributes(cls)) |->
        IF ("_" \o name) \in Keys(instance.dict)
        THEN Lookup(instance.dict, "_" \o name) ELSE UNDEFINED]

CosmeticStep ==
    /\ record'.nops = record.nops + 1
    /\ record'.last.op \in {"add_cosmetic_attribute", "delete_cosmetic_attribute"}

CosmeticsTracked(instance) ==
    \A i \in 1..Len(instance.cosmetic_attribs) :
        ("_" \o instance.cosmetic_attribs[i]) \in Keys(instance.dict)

\* to_dict returned, with every listed cosmetic attribute under its stored
\* value and no key that is neither a schema key nor a listed name
CosmeticsEmitted(r) ==
    /\ r.dict_status = "ok"
    /\ \A name \in CosmeticKeys(r.instance, r.discard) :
          /\ name \in Keys(r.dict)
          /\ Lookup(r.dict, name) = Lookup(r.instance.dict, "_" \o name)
    /\ Keys(r.dict) \subseteq
          CosmeticKeys(r.instance, r.discard)
              \cup UNION {AttributeKeys(r.instance, d) :
                             d \in Range(get_parameter_attributes(r.cls))}

\* C27: under any sequence of add_cosmetic_attribute and
\* delete_cosmetic_attribute calls on a constructed record, repeated names
\* included, the schema attributes keep their values, every name in the
\* cosmetic list has a stored value, and to_dict succeeds and emits each
\* listed cosmetic attribute with its latest value and no deleted one.
C27_CosmeticsInert ==
    [][/\ CosmeticStep
           => SchemaValues(record.cls, record'.instance)
                  = SchemaValues(record.cls, record.instance)
       /\ CosmeticsTracked(record'.instance)
       /\ record'.stage = "serialized" => CosmeticsEmitted(record')]_vars

\* C24: the construction of a handler terminates for every keyword input,
\* returning a handler or raising; numbered header keys such as k1, k2 of a
\* handler with indexed header attributes are resolved in finitely many
\* steps.
C24_ConstructionTerminates == <>(handler.stage = "constructed")

-----------------------------------------------------------------------------
(* C25 -- a create_force call that raises leaves the engine object, its    *)
(* forces, terms and constraints, and the constraint state of the topology *)
(* exactly as they were before the call.                                   *)
C25_FailureAtomicity ==
    [][(ran' # ran /\ outcome'.status # "ok") =>
           /\ system' = system
           /\ constrained' = constrained]_vars

-----------------------------------------------------------------------------
(* C26 -- create_force and postprocess_system of every handler leave the   *)
(* handler's records as they were: the same sequence of records, every     *)
(* attribute of every record with the same value.                          *)
C26_RecordsUnchanged == [][ran' # ran => parameters' = parameters]_vars

-----------------------------------------------------------------------------
(* C28 -- an assignment through a property setter of a constructed         *)
(* vdWHandler either stores the value under that attribute and changes no  *)
(* other attribute, or raises IncompatibleParameterError and changes       *)
(* nothing; after any sequence of assignments the method is 'cutoff' or    *)
(* 'PME' and the handler's validation passes.                              *)
C28_SettersChangeOneAttribute ==
    [][handler'.nsets = handler.nsets + 1 =>
           /\ IF handler'.last.status = "ok"
              THEN handler'.handler =
                       [handler.handler EXCEPT
                           !.attribs = SetItem(@, handler'.last.name, handler'.last.other)]
              ELSE /\ handler'.last.status = "IncompatibleParameterError"
                   /\ handler'.handler = handler.handler
           /\ Lookup(handler'.handler.attribs, "method") \in {"cutoff", "PME"}
           /\ vdWHandler_validate_parameters(HeaderOf(handler'.handler)) = "ok"]_vars

-----------------------------------------------------------------------------
(* C30 -- after vdWHandler.create_force and then                           *)
(* ElectrostaticsHandler.create_force have run on a periodic topology, the *)
(* cutoff distance of the nonbonded force is the cutoff declared on the    *)
(* vdW handler, whatever that cutoff and the vdW method are.               *)
C30_CutoffKept ==
    (/\ ran = <<"vdW", "Electrostatics">>
     /\ outcome.status = "ok"
     /\ topology.box_vectors.t # "None")
        => system.forces[existing_force(system, "NonbondedForce")].settings.cutoff
               = header["vdW"].cutoff
=============================================================================
